---- MODULE Spec2Model ----
(***************************************************************************)
(* Verification model of the VRTrainer pet/trainer rule engine.            *)
(*                                                                         *)
(* Text is a sequence of one-character strings.  Times are integers in     *)
(* whole seconds, scale factors are integers in tenths.                    *)
(***************************************************************************)
EXTENDS Integers, Sequences, FiniteSets, TLC

(***************************************************************************)
(* Bounds of the model                                                     *)
(***************************************************************************)
MaxChunks == 3

(***************************************************************************)
(* Small helpers                                                           *)
(***************************************************************************)
Max2(a, b) == IF a >= b THEN a ELSE b

Min2(a, b) == IF a <= b THEN a ELSE b

(***************************************************************************)
(* Text primitives (str.lower, str.isalnum, str.isspace, str.strip,        *)
(* str.split, str.join, the `in` substring test)                           *)
(***************************************************************************)
Chars == {"a", "b", "A", "i", "I", "m", " ", "!", "_", "'"}

Lower(ch) == IF ch = "A" THEN "a" ELSE IF ch = "I" THEN "i" ELSE ch

IsAlnum(ch) == ch \in {"a", "b", "A", "i", "I", "m"}

\* the alphabet has no digits
IsAlpha(ch) == IsAlnum(ch)

IsSpace(ch) == ch = " "

RECURSIVE LStrip(_)
LStrip(s) == IF s # <<>> /\ IsSpace(Head(s)) THEN LStrip(Tail(s)) ELSE s

RECURSIVE RStrip(_)
RStrip(s) ==
    IF s # <<>> /\ IsSpace(s[Len(s)]) THEN RStrip(SubSeq(s, 1, Len(s) - 1)) ELSE s

StripText(s) == RStrip(LStrip(s))

\* " ".join(parts)
RECURSIVE JoinTexts(_)
JoinTexts(parts) ==
    IF parts = <<>> THEN <<>>
    ELSE IF Len(parts) = 1 THEN parts[1]
    ELSE parts[1] \o <<" ">> \o JoinTexts(Tail(parts))

\* str.split(): the maximal runs of non-whitespace characters
RECURSIVE SplitWords(_, _)
SplitWords(s, cur) ==
    IF s = <<>> THEN (IF cur = <<>> THEN <<>> ELSE <<cur>>)
    ELSE IF IsSpace(Head(s))
         THEN (IF cur = <<>> THEN SplitWords(Tail(s), <<>>)
               ELSE <<cur>> \o SplitWords(Tail(s), <<>>))
         ELSE SplitWords(Tail(s), Append(cur, Head(s)))

\* needle in hay
Contains(hay, needle) ==
    \E i \in 0..(Len(hay) - Len(needle)) :
        SubSeq(hay, i + 1, i + Len(needle)) = needle

(***************************************************************************)
(* Transcript store (interfaces/whisper.py)                                *)
(***************************************************************************)
FwTag == "pet_forbidden_words_feature"

WgTag == "pet_word_game_feature"

DepthTag == "depth"

SummonTag == "trainer_proximity_feature"

CommandTag == "trainer_tricks_feature"

ScoldTag == "trainer_scolding_feature"

Tags == {FwTag, WgTag, DepthTag, ScoldTag, SummonTag, CommandTag}

\* the tags read while the store is observed on its own
ReaderTags == {FwTag, WgTag}

\* the tag that get_new_text and reset_tag refuse
EmptyTag == ""

\* the keys self._tag_positions can be given
TagKeys == Tags \cup {EmptyTag}

\* texts the transcription worker can append: stripped and non-empty
ChunkTexts == {<<"a">>, <<"A", "!", "b">>}

NoPos == -1

VARIABLES
    transcript,       \* WhisperInterface._transcript (texts of the chunks)
    tag_positions,    \* WhisperInterface._tag_positions, NoPos = key absent
    tagInit,          \* history: transcript length when the tag was created
    wasReset,         \* history: reset_tag was called for the tag
    delivered,        \* history: chunks handed to the tag since its cursor
                      \* was last set by reset_tag or created, in order
    lastRead,         \* history: the last get_new_text result of the tag
    w_call            \* history: the latest call that raised or only read

wvars ==
    <<transcript, tag_positions, tagInit, wasReset, delivered, lastRead, w_call>>

VARIABLES
    sc_config,        \* the mapping handed to the resolver
    sc_result,        \* what Feature._scaling_from_config returned
    sx_result,        \* what services._extract_scaling returned
    sr_result         \* what Feature._scaled_strength_range returned, and for
                      \* which base strengths

scvars == <<sc_config, sc_result, sx_result, sr_result>>

VARIABLES
    param_values,     \* VRChatOSCInterface._param_values, Absent = key absent
    p_call            \* the last typed accessor call and what it returned

pvars == <<param_values, p_call>>

\* the pet runtime's clock, its cache of the latest settings per trainer, and
\* the feature under observation (the features share no state, so one runs
\* at a time); tick records what the tick that has just run read and
\* requested of the actuator; last_shock, pull_last and stable record when
\* shocks were last requested and whether a trainer's settings changed since
VARIABLES
    now,
    latest_settings,
    feat,
    tick,
    last_shock,
    pull_last,
    stable

evars == <<now, latest_settings, feat, tick, last_shock, pull_last, stable>>

VARIABLES
    fw_state,
    fw_active

fwvars == <<fw_state, fw_active>>

\* WordFeature._active_game and WordFeature._cooldown_until
VARIABLES
    wg_active_game,
    wg_cooldown_until

wgvars == <<wg_active_game, wg_cooldown_until>>

VARIABLES pull_cooldown_until

plvars == <<pull_cooldown_until>>

VARIABLES fc_state

fcvars == <<fc_state>>

VARIABLES tk_state

tkvars == <<tk_state>>

\* a feature object's lifecycle fields, the worker threads it has spawned, the
\* last start/stop call, and the scolding feature's per-trainer cooldowns
VARIABLES
    lc_running,
    lc_stop_event,
    lc_thread,
    lc_workers,
    lc_op,
    sd_state,
    dp_cooldown_until

lcvars ==
    <<lc_running, lc_stop_event, lc_thread, lc_workers, lc_op, sd_state,
      dp_cooldown_until>>

\* the session channel of the pet runtime: RemoteServerInterface._connected
\* (the session being joined), ._incoming and ._latest_settings; ch_pushed
\* records the payload of each trainer's latest config message and ch_poll the
\* latest poll_events call
VARIABLES
    ch_connected,
    ch_incoming,
    ch_latest_settings,
    ch_pushed,
    ch_poll

chvars == <<ch_connected, ch_incoming, ch_latest_settings, ch_pushed, ch_poll>>

\* where each worker thread of TricksFeature stands in _worker_loop, and for
\* each what has happened since stop() was last called while it was alive
VARIABLES
    tl_pc,
    tl_stop,
    tl_start          \* the callers inside start() past its test of
                      \* self._running, and the threads created by a caller
                      \* that another one had overtaken

tlvars == <<tl_pc, tl_stop, tl_start>>

\* the feedback actuator: PiShockInterface._role, ._connected and whether
\* ._shocker is set; ps_call records the latest call and what it did
VARIABLES
    ps_role,
    ps_connected,
    ps_shocker,
    ps_call

psvars == <<ps_role, ps_connected, ps_shocker, ps_call>>

\* the objects of the session channel's settings: the dict objects (a scalar
\* setting and a reference to a list of names each), the list objects,
\* the object self._latest_settings is bound to, and the snapshot each caller
\* holds
VARIABLES
    sn_dicts,
    sn_lists,
    sn_list_count,
    sn_stored,
    sn_held

snvars == <<sn_dicts, sn_lists, sn_list_count, sn_stored, sn_held>>

\* the text given to the normalisers, what each returned, and which ran
VARIABLES
    nm_text,
    nm_result,
    nm_called

nmvars == <<nm_text, nm_result, nm_called>>

\* the speech interface (WhisperInterface._running, whether its worker thread
\* was started) and the OSC interface (VRChatOSCInterface._enabled, ._running,
\* whether ._server is bound), each with its latest start or stop call
VARIABLES
    wh_running,
    wh_thread,
    wh_call,
    osc_enabled,
    osc_running,
    osc_server,
    osc_call

cpvars ==
    <<wh_running, wh_thread, wh_call, osc_enabled, osc_running, osc_server,
      osc_call>>

\* the trainer's scolding detector: TrainerScoldingFeature._enabled and
\* ._scolding_phrases, what the config provider returns for each pet, and
\* what the latest tick read and sent
VARIABLES
    ts_enabled,
    ts_phrases,
    ts_configs,
    ts_tick

tsvars == <<ts_enabled, ts_phrases, ts_configs, ts_tick>>

\* the trainer's command detectors (logic/trainer/proximity.py and
\* logic/trainer/tricks.py): self._pet_names, which both are constructed
\* with, and what the latest detection read and answered
VARIABLES
    td_pet_names,
    td_tick

tdvars == <<td_pet_names, td_tick>>

\* the sessions of RemoteServerInterface: _session_id, _connected, the
\* session in the URL of self._ws, whether _ws_thread is set, _incoming with
\* the session each event came from, and what the latest poll returned
VARIABLES
    ss_session_id,
    ss_connected,
    ss_ws,
    ss_ws_thread,
    ss_incoming,
    ss_poll

ssvars ==
    <<ss_session_id, ss_connected, ss_ws, ss_ws_thread, ss_incoming, ss_poll>>

\* the per-pet profile caches of logic/services.py: _pet_profile_assignments,
\* _pet_profile_payloads as references to the dict objects of pp_heap, and
\* the call made last with the configs it sent
VARIABLES
    pp_assignments,
    pp_payloads,
    pp_heap,
    pp_call

ppvars == <<pp_assignments, pp_payloads, pp_heap, pp_call>>

\* the components observed on their own
\* pet Proximity: the per-trainer state
VARIABLES px_state

pxvars == <<px_state>>

compvars == <<snvars, nmvars, cpvars, tsvars, tdvars, ssvars, ppvars>>

petvars ==
    <<evars, fwvars, wgvars, plvars, fcvars, tkvars, lcvars, chvars, tlvars,
      psvars, pxvars>>

featvars ==
    <<fwvars, wgvars, plvars, fcvars, tkvars, lcvars, chvars, tlvars, psvars, pxvars>>

notFw == <<wgvars, plvars, fcvars, tkvars, lcvars, chvars, tlvars, psvars, pxvars>>

notWg == <<fwvars, plvars, fcvars, tkvars, lcvars, chvars, tlvars, psvars, pxvars>>

notPl == <<fwvars, wgvars, fcvars, tkvars, lcvars, chvars, tlvars, psvars, pxvars>>

notFc == <<fwvars, wgvars, plvars, tkvars, lcvars, chvars, tlvars, psvars, pxvars>>

notTk == <<fwvars, wgvars, plvars, fcvars, lcvars, chvars, tlvars, psvars, pxvars>>

notLc == <<fwvars, wgvars, plvars, fcvars, tkvars, chvars, tlvars, psvars, pxvars>>

notCh == <<fwvars, wgvars, plvars, fcvars, tkvars, lcvars, tlvars, psvars, pxvars>>

notTl == <<fwvars, wgvars, plvars, fcvars, tkvars, chvars, psvars, pxvars>>

notPs == <<fwvars, wgvars, plvars, fcvars, tkvars, lcvars, chvars, tlvars, pxvars>>

\* the variables an action of one component leaves alone

notW == <<scvars, pvars, petvars, compvars>>

notSc == <<wvars, pvars, petvars, compvars>>

notP == <<wvars, scvars, petvars, compvars>>

notPx ==
    <<fwvars, wgvars, plvars, fcvars, tkvars, lcvars, chvars, tlvars, psvars>>

notPet == <<scvars, pvars, compvars>>

notSn ==
    <<wvars, scvars, pvars, petvars, nmvars, cpvars,
      tsvars, tdvars, ssvars, ppvars>>

notNm ==
    <<wvars, scvars, pvars, petvars, snvars, cpvars,
      tsvars, tdvars, ssvars, ppvars>>

notCp ==
    <<wvars, scvars, pvars, petvars, snvars, nmvars,
      tsvars, tdvars, ssvars, ppvars>>

notTs ==
    <<scvars, pvars, petvars,
      snvars, nmvars, cpvars, tdvars, ssvars, ppvars>>

notTd ==
    <<scvars, pvars, petvars,
      snvars, nmvars, cpvars, tsvars, ssvars, ppvars>>

notSs ==
    <<wvars, scvars, pvars, petvars,
      snvars, nmvars, cpvars, tsvars, tdvars, ppvars>>

notPp ==
    <<wvars, scvars, pvars, petvars,
      snvars, nmvars, cpvars, tsvars, tdvars, ssvars>>

NoStoreCall ==
    [op |-> "none", tag |-> "none", count |-> 0, result |-> <<>>,
     raised |-> FALSE]

NoRead == [first |-> FALSE, from |-> NoPos, to |-> NoPos, text |-> <<>>]

WInit ==
    /\ transcript = <<>>
    /\ tag_positions = [t \in TagKeys |-> NoPos]
    /\ tagInit = [t \in TagKeys |-> NoPos]
    /\ wasReset = [t \in TagKeys |-> FALSE]
    /\ delivered = [t \in TagKeys |-> <<>>]
    /\ lastRead = [t \in TagKeys |-> NoRead]
    /\ w_call = NoStoreCall

\* _worker_loop: with self._lock: self._transcript.append(chunk)
AppendChunk(text) ==
    /\ Len(transcript) < MaxChunks
    /\ transcript' = Append(transcript, text)
    /\ UNCHANGED <<tag_positions, tagInit, wasReset, delivered, lastRead, w_call>>
    /\ UNCHANGED notW

\* cursor of an unseen tag: len(self._transcript)
InitialCursor_Zero(len) == 0

InitialCursor(len) == len

\* self._transcript[start_index:end_index]
SliceOf(tr, start, end) == SubSeq(tr, start + 1, end)

\* the cursor get_new_text stores after a non-empty read
AdvancedCursor_Stay(start, end) == start

AdvancedCursor(start, end) == end

\* the state of the store after get_new_text(tag) on the store state
\* [pos, init, del, last] over `transcript`, for a non-empty tag.  The cursor
\* is read and advanced under self._lock and the join works on the call's
\* own list `chunks`, so the call is one atomic step for every other thread.
get_new_text_on(st, tag) ==
    LET fresh == st.pos[tag] = NoPos
        start_index == IF fresh THEN InitialCursor(Len(transcript))
                       ELSE st.pos[tag]
        end_index == Len(transcript)
        chunks == IF start_index >= end_index THEN <<>>
                  ELSE SliceOf(transcript, start_index, end_index)
        result == IF start_index >= end_index THEN <<>>
                  ELSE StripText(JoinTexts(chunks))
    IN [pos |-> [st.pos EXCEPT ![tag] =
                    IF start_index >= end_index THEN start_index
                    ELSE AdvancedCursor(start_index, end_index)],
        init |-> IF fresh THEN [st.init EXCEPT ![tag] = Len(transcript)]
                 ELSE st.init,
        reset |-> st.reset,
        del |-> [st.del EXCEPT ![tag] = @ \o chunks],
        last |-> [st.last EXCEPT ![tag] =
                    [first |-> fresh, from |-> start_index,
                     to |-> Max2(start_index, end_index), text |-> result]]]

\* reset_tag rewinding the cursor to the start of the transcript
ResetCursor_Zero(len) == 0

\* the cursor reset_tag stores: len(self._transcript)
ResetCursor(len) == len

\* the state of the store after reset_tag(tag), for a non-empty tag
reset_tag_on(st, tag) ==
    [pos |-> [st.pos EXCEPT ![tag] = ResetCursor(Len(transcript))],
     init |-> IF st.pos[tag] = NoPos
              THEN [st.init EXCEPT ![tag] = Len(transcript)]
              ELSE st.init,
     reset |-> [st.reset EXCEPT ![tag] = TRUE],
     del |-> [st.del EXCEPT ![tag] = <<>>],
     last |-> st.last]

StoreState ==
    [pos |-> tag_positions, init |-> tagInit, reset |-> wasReset,
     del |-> delivered, last |-> lastRead]

SetStore(st) ==
    /\ tag_positions' = st.pos
    /\ tagInit' = st.init
    /\ wasReset' = st.reset
    /\ delivered' = st.del
    /\ lastRead' = st.last

\* `if not tag` letting every tag through
valid_tag_Any(tag) == TRUE

\* `if not tag: raise ValueError(...)`, the test of get_new_text and reset_tag
valid_tag(tag) == tag # ""

\* the call `op` with the tag `tag` raising ValueError
RaisedCall(op, tag) ==
    [NoStoreCall EXCEPT !.op = op, !.tag = tag, !.raised = TRUE]

\* a consumer calls get_new_text(tag)
get_new_text(tag) ==
    /\ IF valid_tag(tag)
       THEN /\ SetStore(get_new_text_on(StoreState, tag))
            /\ w_call' = NoStoreCall
       ELSE /\ w_call' = RaisedCall("get_new_text", tag)
            /\ UNCHANGED <<tag_positions, tagInit, wasReset, delivered, lastRead>>
    /\ UNCHANGED transcript
    /\ UNCHANGED notW

\* a consumer calls reset_tag(tag)
reset_tag(tag) ==
    /\ IF valid_tag(tag)
       THEN /\ SetStore(reset_tag_on(StoreState, tag))
            /\ w_call' = NoStoreCall
       ELSE /\ w_call' = RaisedCall("reset_tag", tag)
            /\ UNCHANGED <<tag_positions, tagInit, wasReset, delivered, lastRead>>
    /\ UNCHANGED transcript
    /\ UNCHANGED notW

\* self._transcript[-count:] as texts, for count > 0
recent_chunks(tr, count) == SubSeq(tr, Max2(1, Len(tr) - count + 1), Len(tr))

\* a consumer calls get_recent_text_chunks(count)
get_recent_text_chunks(count) ==
    /\ w_call' = [NoStoreCall EXCEPT
                     !.op = "get_recent_text_chunks",
                     !.count = count,
                     !.result = IF count <= 0 THEN <<>>
                                ELSE recent_chunks(transcript, count)]
    /\ UNCHANGED <<transcript, tag_positions, tagInit, wasReset, delivered,
                   lastRead>>
    /\ UNCHANGED notW

\* the counts get_recent_text_chunks is called with: its default, the 3 of
\* the trainer features, more than the transcript holds, none
RecentCounts == {-1, 0, 1, 3, 5}

\* the tags of the calls when the calls themselves are observed
CallTags == {FwTag, EmptyTag}

StoreCallsNext ==
    \/ \E text \in ChunkTexts : AppendChunk(text)
    \/ \E tag \in CallTags : get_new_text(tag)
    \/ \E tag \in CallTags : reset_tag(tag)
    \/ \E count \in RecentCounts : get_recent_text_chunks(count)

WNext ==
    \/ \E text \in ChunkTexts : AppendChunk(text)
    \/ \E tag \in ReaderTags : get_new_text(tag)
    \/ \E tag \in ReaderTags : reset_tag(tag)

WIdle == WInit

(***************************************************************************)
(* Scaling/config resolver (logic/feature.py, logic/services.py)           *)
(*                                                                         *)
(* A raw configuration value is a tagged record; numbers are in tenths.    *)
(* A float is finite, NaN or an infinity.                                  *)
(***************************************************************************)
ScaleKeys == {"delay_scale", "cooldown_scale", "duration_scale", "strength_scale"}

Missing == [k |-> "missing", v |-> 0]

PyNone == [k |-> "none", v |-> 0]

BadStr == [k |-> "str", v |-> 0]

NaN == [k |-> "nan", v |-> 0]

PosInf == [k |-> "inf", v |-> 0]

NegInf == [k |-> "ninf", v |-> 0]

Num(v) == [k |-> "num", v |-> v]

NumStr(v) == [k |-> "numstr", v |-> v]

PyBool(b) == [k |-> "bool", v |-> IF b THEN 10 ELSE 0]

\* a configuration that is no mapping (None, a list, ...)
NotADict == [key \in ScaleKeys |-> [k |-> "not_a_dict", v |-> 0]]

\* float(x): the float, or raised = TRUE (TypeError / ValueError)
PyFloat(x) ==
    CASE x.k \in {"num", "numstr", "bool"} -> [raised |-> FALSE, f |-> Num(x.v)]
      [] x.k \in {"nan", "inf", "ninf"}    -> [raised |-> FALSE, f |-> x]
      [] OTHER                             -> [raised |-> TRUE, f |-> Num(0)]

\* a < b on floats; every comparison with NaN is false
FloatLess(a, b) ==
    CASE a.k = "nan" \/ b.k = "nan" -> FALSE
      [] a.k = "ninf" -> b.k # "ninf"
      [] a.k = "inf"  -> FALSE
      [] b.k = "inf"  -> TRUE
      [] b.k = "ninf" -> FALSE
      [] OTHER        -> a.v < b.v

\* min(a, b): the first argument unless the second is smaller
PyMin(a, b) == IF FloatLess(b, a) THEN b ELSE a

\* max(a, b): the first argument unless the second is larger
PyMax(a, b) == IF FloatLess(a, b) THEN b ELSE a

\* config.get(key, 1.0); on a non-mapping the attribute lookup raises
ConfigGet(config, key) ==
    IF config = NotADict THEN [raised |-> TRUE, x |-> PyNone]
    ELSE IF config[key] = Missing THEN [raised |-> FALSE, x |-> Num(10)]
    ELSE [raised |-> FALSE, x |-> config[key]]

\* _scaling_from_config._safe without the upper clamp
safe_NoUpperClamp(config, key) ==
    LET got == ConfigGet(config, key)
        fl == PyFloat(got.x)
        val == IF got.raised \/ fl.raised THEN Num(10) ELSE fl.f
    IN PyMax(Num(0), val)

\* _scaling_from_config._safe
safe(config, key) ==
    LET got == ConfigGet(config, key)
        fl == PyFloat(got.x)
        val == IF got.raised \/ fl.raised THEN Num(10) ELSE fl.f
    IN PyMax(Num(0), PyMin(Num(20), val))

\* Feature._scaling_from_config (the same body is repeated in the pet features)
scaling_from_config(config) == [key \in ScaleKeys |-> safe(config, key)]

\* services._extract_scaling._safe_scale
safe_scale(settings, key) ==
    LET got == ConfigGet(settings, key)
        fl == PyFloat(got.x)
        value == IF got.raised \/ fl.raised THEN Num(10) ELSE fl.f
    IN PyMax(Num(0), PyMin(Num(20), value))

\* services._extract_scaling
extract_scaling(settings) == [key \in ScaleKeys |-> safe_scale(settings, key)]

ScaleRawValues ==
    {Missing, PyNone, BadStr, NaN, NegInf, PosInf, Num(-5), Num(5), Num(25), NumStr(15)}

ScaleConfigs == [ScaleKeys -> ScaleRawValues] \cup {NotADict}

NoResult == [key \in ScaleKeys |-> [k |-> "no_result", v |-> 0]]


\* _base_shock_strength_min and _base_shock_strength_max: the 10 and 50 of
\* Feature, the 20 and 80 of Focus and Proximity, a minimum above the
\* maximum, and zeros
BaseStrengthPairs == {<<10, 50>>, <<20, 80>>, <<50, 10>>, <<0, 30>>, <<0, 0>>}

NoRange ==
    [called |-> FALSE, base_min |-> 0, base_max |-> 0, shock_min |-> 0,
     shock_max |-> 0]

\* _scaled_strength_range returning the scaled maximum as it is
scaled_strength_range_NoOrder(config, base_min, base_max) ==
    LET scaling == scaling_from_config(config)
        shock_min == PyMax(Num(0), Num(base_min * scaling["strength_scale"].v))
    IN [shock_min |-> shock_min.v,
        shock_max |-> base_max * scaling["strength_scale"].v]

\* Feature._scaled_strength_range (the same two lines are repeated in the
\* _shock_params of Focus and Proximity); the strengths are in tenths
scaled_strength_range(config, base_min, base_max) ==
    LET scaling == scaling_from_config(config)
        shock_min == PyMax(Num(0), Num(base_min * scaling["strength_scale"].v))
        shock_max == PyMax(shock_min,
                           Num(base_max * scaling["strength_scale"].v))
    IN [shock_min |-> shock_min.v, shock_max |-> shock_max.v]

ScInit ==
    /\ sc_config \in ScaleConfigs
    /\ sc_result = NoResult
    /\ sx_result = NoResult
    /\ sr_result = NoRange

ScIdle ==
    /\ sc_config = NotADict
    /\ sc_result = NoResult
    /\ sx_result = NoResult
    /\ sr_result = NoRange

ResolveFeatureScaling ==
    /\ sc_result = NoResult
    /\ sc_result' = scaling_from_config(sc_config)
    /\ UNCHANGED <<sc_config, sx_result, sr_result>>
    /\ UNCHANGED notSc

ResolveServiceScaling ==
    /\ sx_result = NoResult
    /\ sx_result' = extract_scaling(sc_config)
    /\ UNCHANGED <<sc_config, sc_result, sr_result>>
    /\ UNCHANGED notSc

\* a feature whose base strengths are base_min and base_max resolves its
\* strength range
ResolveStrengthRange(base_min, base_max) ==
    /\ sr_result = NoRange
    /\ sr_result' =
           LET r == scaled_strength_range(sc_config, base_min, base_max)
           IN [called |-> TRUE, base_min |-> base_min, base_max |-> base_max,
               shock_min |-> r.shock_min, shock_max |-> r.shock_max]
    /\ UNCHANGED <<sc_config, sc_result, sx_result>>
    /\ UNCHANGED notSc

ScNext ==
    \/ ResolveFeatureScaling
    \/ ResolveServiceScaling
    \/ \E pair \in BaseStrengthPairs : ResolveStrengthRange(pair[1], pair[2])

(***************************************************************************)
(* Parameter store (interfaces/vrchatosc.py)                               *)
(*                                                                         *)
(* An OSC value is None, a bool, a number (in 1/32, OscOne is 1.0), a      *)
(* float NaN, a string or a value of another type (a blob, a list).        *)
(***************************************************************************)
OscOne == 32

OscNone == [k |-> "none", v |-> 0, s |-> ""]

OscBool(b) == [k |-> "bool", v |-> IF b THEN 1 ELSE 0, s |-> ""]

OscNum(v) == [k |-> "num", v |-> v, s |-> ""]

OscStr(str) == [k |-> "str", v |-> 0, s |-> str]

Absent == [k |-> "absent", v |-> 0, s |-> ""]

OscNaN == [k |-> "nan", v |-> 0, s |-> ""]

\* a value that is no bool, number or string; bool(raw) is `truthy`
OscBlob(truthy) == [k |-> "other", v |-> IF truthy THEN 1 ELSE 0, s |-> ""]

OscStrings == {"1", " YES ", "On", "0", "False", " off", "maybe", "", " "}

\* raw.strip().lower() on the strings of the model
StripLower(str) ==
    CASE str = " YES " -> "yes"
      [] str = "On"    -> "on"
      [] str = "False" -> "false"
      [] str = " off"  -> "off"
      [] str = " "     -> ""
      [] str = " 1.5 " -> "1.5"
      [] OTHER         -> str

\* bool(raw) of a string: non-empty
StrTruthy(str) == str # ""

\* dict.get(name, default)
get_parameter(name, default) ==
    IF param_values[name] = Absent THEN default ELSE param_values[name]

\* get_bool_param after raw = self.get_parameter(name, default)
bool_of_raw(raw, default) ==
    CASE raw.k = "none" -> FALSE
      [] raw.k = "bool" -> raw.v = 1
      [] raw.k = "num"  -> raw.v # 0
      [] raw.k = "str"  ->
            IF StripLower(raw.s) \in {"1", "true", "yes", "on"} THEN TRUE
            ELSE IF StripLower(raw.s) \in {"0", "false", "no", "off"} THEN FALSE
            ELSE StrTruthy(raw.s)
      [] raw.k = "nan"  -> TRUE
      [] raw.k = "other" -> raw.v # 0
      [] OTHER -> FALSE

\* the strings that float() parses differently from the ones above
OscFloatStrings == {"0.5", " 1.5 ", "nan", "-inf"}

\* float(raw.strip()); raised = TRUE is ValueError
parse_float(str) ==
    CASE StripLower(str) = "1"    -> [raised |-> FALSE, f |-> Num(OscOne)]
      [] StripLower(str) = "0"    -> [raised |-> FALSE, f |-> Num(0)]
      [] StripLower(str) = "0.5"  -> [raised |-> FALSE, f |-> Num(OscOne \div 2)]
      [] StripLower(str) = "1.5"  -> [raised |-> FALSE, f |-> Num(OscOne + OscOne \div 2)]
      [] StripLower(str) = "nan"  -> [raised |-> FALSE, f |-> NaN]
      [] StripLower(str) = "-inf" -> [raised |-> FALSE, f |-> NegInf]
      [] OTHER                    -> [raised |-> TRUE, f |-> Num(0)]

\* max(0.0, value): the clamp without its upper bound
clamp_unit_NoUpper(value) == PyMax(Num(0), value).v

\* max(0.0, min(1.0, value))
clamp_unit(value) == PyMax(Num(0), PyMin(Num(OscOne), value)).v

\* get_float_param after raw = self.get_parameter(name, default)
float_of_raw(raw) ==
    CASE raw.k = "none" -> 0
      [] raw.k = "bool" -> clamp_unit(Num(IF raw.v = 1 THEN OscOne ELSE 0))
      [] raw.k = "num"  -> clamp_unit(Num(raw.v))
      [] raw.k = "nan"  -> clamp_unit(NaN)
      [] raw.k = "str"  ->
            IF parse_float(raw.s).raised THEN 0
            ELSE clamp_unit(parse_float(raw.s).f)
      [] OTHER -> 0

ParamNames == {"Trainer/Focus", "Trainer/Paw"}

OscValues ==
    {OscNone, OscBool(TRUE), OscBool(FALSE), OscNum(0), OscNum(16)}
        \cup {OscStr(str) : str \in OscStrings}

OscDefaults == {OscNone, OscBool(TRUE), OscBool(FALSE)}

\* the values only get_float_param tells apart
OscFloatValues ==
    {OscNum(-16), OscNum(48), OscNaN, OscBlob(TRUE)}
        \cup {OscStr(str) : str \in OscFloatStrings}

\* the defaults callers pass to get_float_param: none, 1.0, 0.0
OscFloatDefaults == {OscNone, OscNum(OscOne), OscNum(0)}

NoCall == [op |-> "none", name |-> "", default |-> OscNone, stored |-> Absent,
           result |-> FALSE, fresult |-> 0]

PInit ==
    /\ param_values = [n \in ParamNames |-> Absent]
    /\ p_call = NoCall

PIdle == PInit

\* _on_osc_message for an address /avatar/parameters/<name>; has_value is
\* FALSE for a message without arguments (values[0] if values else None)
on_osc_message(name, has_value, value) ==
    /\ param_values' = [param_values EXCEPT ![name] =
                           IF has_value THEN value ELSE OscNone]
    /\ UNCHANGED p_call
    /\ UNCHANGED notP

\* get_bool_param(name, default)
get_bool_param(name, default) ==
    /\ p_call' = [op |-> "get_bool_param", name |-> name, default |-> default,
                  stored |-> param_values[name],
                  result |-> bool_of_raw(get_parameter(name, default), default),
                  fresult |-> 0]
    /\ UNCHANGED param_values
    /\ UNCHANGED notP

\* get_float_param(name, default)
get_float_param(name, default) ==
    /\ p_call' = [op |-> "get_float_param", name |-> name, default |-> default,
                  stored |-> param_values[name],
                  result |-> FALSE,
                  fresult |-> float_of_raw(get_parameter(name, default))]
    /\ UNCHANGED param_values
    /\ UNCHANGED notP

PNext ==
    \/ \E n \in ParamNames, v \in (OscValues \cup OscFloatValues) \ {OscNone} :
           on_osc_message(n, TRUE, v)
    \/ \E n \in ParamNames : on_osc_message(n, FALSE, OscNone)
    \/ \E n \in ParamNames, dflt \in OscDefaults : get_bool_param(n, dflt)
    \/ \E n \in ParamNames, dflt \in OscFloatDefaults : get_float_param(n, dflt)

(***************************************************************************)
(* Pet runtime: clock, per-trainer settings, actuator requests             *)
(*                                                                         *)
(* Times are whole seconds; scaling factors are tenths (Num(10) is 1.0).   *)
(* The configurations below resolve to the factors 0.0, 0.5, 1.0 and 2.0,  *)
(* for which base * scale is computed without rounding.                    *)
(***************************************************************************)
MaxTime == 6

\* chunks spoken while a pet feature runs
MaxSpeech == 2

Trainers == {"A", "B"}

FeatureFlags ==
    {"feature_focus", "feature_tricks", "feature_scolding",
     "feature_forbidden_words"}

DefaultScales == [key \in ScaleKeys |-> Missing]

\* no settings cached for the trainer
NoConfig ==
    [present |-> FALSE, flags |-> {}, forbidden_words |-> <<>>,
     scales |-> DefaultScales, word_game |-> ""]

\* every feature enabled, one phrase that normalises to "a b", no scaling keys
CfgPlain ==
    [present |-> TRUE, flags |-> FeatureFlags,
     forbidden_words |-> << <<"A", "_", "b">> >>,
     scales |-> DefaultScales, word_game |-> ""]

\* every feature enabled, an empty word list, cooldown_scale below the range
CfgEmpty ==
    [present |-> TRUE, flags |-> FeatureFlags, forbidden_words |-> <<>>,
     scales |-> [DefaultScales EXCEPT !["cooldown_scale"] = Num(-5)],
     word_game |-> ""]

\* every feature enabled, a phrase without letters and one that normalises to
\* "a a", cooldown_scale above the range, no delay, half strength
CfgSlow ==
    [present |-> TRUE, flags |-> FeatureFlags,
     forbidden_words |-> << <<"!">>, <<"a", " ", " ", "A">> >>,
     scales |-> [DefaultScales EXCEPT !["cooldown_scale"] = Num(25),
                                      !["delay_scale"] = Num(0),
                                      !["strength_scale"] = NumStr(5)],
     word_game |-> ""]

\* settings present but no feature enabled
CfgOff ==
    [present |-> TRUE, flags |-> {}, forbidden_words |-> << <<"a">> >>,
     scales |-> DefaultScales, word_game |-> ""]

\* the settings each trainer pushes
TrainerConfigs ==
    [t \in Trainers |->
        IF t = "A" THEN {NoConfig, CfgPlain, CfgOff}
        ELSE {NoConfig, CfgEmpty, CfgSlow}]

\* base * scaling[key] for a base in whole units and a factor in tenths
ScaledValue(base, config, key) ==
    (base * scaling_from_config(config.scales)[key].v) \div 10

\* {tid: cfg for tid, cfg in configs.items() if cfg.get(flag)}
ActiveTrainerConfigs(flag) ==
    {t \in Trainers :
        latest_settings[t].present /\ flag \in latest_settings[t].flags}

\* the orders in which a dict with the keys S can be iterated
Orders(S) ==
    {o \in [1..Cardinality(S) -> S] :
        \A i, j \in 1..Cardinality(S) : i # j => o[i] # o[j]}

AllOrders == UNION {Orders(S) : S \in SUBSET Trainers}

NoState == -1

\* _prune_inactive_states popping no entry
Pruned_KeepAll(state, active, none) == state

\* self._state_by_trainer after _prune_inactive_states(active_configs), for a
\* state map whose missing entries are none
Pruned(state, active, none) ==
    [t \in Trainers |-> IF t \in active THEN state[t] ELSE none]

ShockRequest(t, strength, duration) ==
    [kind |-> "shock", trainer |-> t, strength |-> strength,
     duration |-> duration]

VibrateRequest(t, strength, duration) ==
    [kind |-> "vibrate", trainer |-> t, strength |-> strength,
     duration |-> duration]

NoPose == [paw |-> Absent, hand |-> Absent, foot |-> Absent, hips |-> Absent,
           head |-> Absent]

NoTick ==
    [feat |-> "none", text |-> <<>>, fired |-> <<>>, target |-> "none",
     stretch |-> 0, done |-> {}, failed |-> <<>>, pruned |-> {},
     speaker |-> "none", phrase |-> "", pose |-> NoPose, stats |-> <<>>,
     stale |-> {}, summons |-> {}, rearmed |-> {}, proximity |-> 0,
     readings |-> <<>>, events |-> 0]

NoShock == [some |-> FALSE, at |-> 0, cfg |-> NoConfig]

\* the record of the latest shock per trainer after a tick that kept the
\* trainers in `active` and requested `fired`
ShocksAfter(active, fired) ==
    [t \in Trainers |->
        IF t \notin active THEN NoShock
        ELSE IF \E i \in 1..Len(fired) : fired[i].trainer = t
             THEN [some |-> TRUE, at |-> now, cfg |-> latest_settings[t]]
             ELSE last_shock[t]]

EInit ==
    /\ now = 0
    /\ latest_settings = [t \in Trainers |-> NoConfig]
    /\ tick = NoTick
    /\ last_shock = [t \in Trainers |-> NoShock]
    /\ pull_last = [some |-> FALSE, at |-> 0]
    /\ stable = [t \in Trainers |-> TRUE]

\* time passes between two ticks
AdvanceTime ==
    /\ now < MaxTime
    /\ now' = now + 1
    /\ tick' = NoTick
    /\ UNCHANGED <<latest_settings, feat, last_shock, pull_last, stable>>
    /\ UNCHANGED <<wvars, featvars>>
    /\ UNCHANGED notPet

\* the session pushes trainer t's settings (c = NoConfig: the trainer left);
\* the cache replaces the entry wholesale
SetConfig(t, c) ==
    /\ c # latest_settings[t]
    /\ latest_settings' = [latest_settings EXCEPT ![t] = c]
    /\ stable' = IF pull_last.some THEN [stable EXCEPT ![t] = FALSE] ELSE stable
    /\ tick' = NoTick
    /\ UNCHANGED <<now, feat, last_shock, pull_last>>
    /\ UNCHANGED <<wvars, featvars>>
    /\ UNCHANGED notPet

(***************************************************************************)
(* Forbidden words (logic/pet/forbidden.py)                                *)
(***************************************************************************)
FwBaseCooldown == 3

FwBaseStrength == 30

\* 0.5 s, in tenths of a second
FwBaseDuration == 5

\* ForbiddenWordsFeature._normalise
normalise(text) ==
    JoinTexts(SplitWords(
        [i \in 1..Len(text) |->
            IF IsAlnum(Lower(text[i])) THEN Lower(text[i]) ELSE " "], <<>>))

NonEmptyText(text) == text # <<>>

\* ForbiddenWordsFeature._normalise_phrases
normalise_phrases(words) ==
    SelectSeq([i \in 1..Len(words) |-> normalise(words[i])], NonEmptyText)

\* _contains_forbidden answering True for any text
contains_forbidden_AnyText(normalised_text, phrases) == TRUE

\* ForbiddenWordsFeature._contains_forbidden
contains_forbidden(normalised_text, phrases) ==
    \E i \in 1..Len(phrases) :
        phrases[i] # <<>> /\ Contains(normalised_text, phrases[i])

\* ForbiddenWordsFeature._cooldown_seconds
fw_cooldown_seconds(config) ==
    Max2(0, ScaledValue(FwBaseCooldown, config, "cooldown_scale"))

\* ForbiddenWordsFeature._shock_params
fw_shock_params(config) ==
    [strength |-> Max2(0, ScaledValue(FwBaseStrength, config, "strength_scale")),
     duration |-> Max2(0, ScaledValue(FwBaseDuration, config, "duration_scale"))]

\* `if shock_sent: break` never leaving the loop
fw_leaves_loop_Never(shock_sent) == FALSE

\* `if shock_sent: break` at the end of the loop body
fw_leaves_loop(shock_sent) == shock_sent

\* the loop over active_configs.items() from position i of `order` on: the
\* first trainer that is out of cooldown and whose phrases match is shocked,
\* its cooldown armed, and the loop left
RECURSIVE fw_loop(_, _, _, _)
fw_loop(order, i, state, normalised_text) ==
    IF i > Len(order) THEN [state |-> state, fired |-> <<>>]
    ELSE LET trainer_id == order[i]
             config == latest_settings[trainer_id]
             st == IF state[trainer_id] = NoState
                   THEN [state EXCEPT ![trainer_id] = 0]
                   ELSE state
             phrases == normalise_phrases(config.forbidden_words)
         IN IF phrases = <<>>
            THEN fw_loop(order, i + 1, st, normalised_text)
            ELSE IF now < st[trainer_id]
            THEN fw_loop(order, i + 1, st, normalised_text)
            ELSE IF contains_forbidden(normalised_text, phrases)
            THEN LET armed == [st EXCEPT ![trainer_id] =
                                  now + fw_cooldown_seconds(config)]
                     shock == ShockRequest(trainer_id,
                                  fw_shock_params(config).strength,
                                  fw_shock_params(config).duration)
                 IN IF fw_leaves_loop(TRUE)
                    THEN [state |-> armed, fired |-> <<shock>>]
                    ELSE LET rest == fw_loop(order, i + 1, armed,
                                             normalised_text)
                         IN [state |-> rest.state,
                             fired |-> <<shock>> \o rest.fired]
            ELSE fw_loop(order, i + 1, st, normalised_text)

FwInit ==
    /\ fw_state = [t \in Trainers |-> NoState]
    /\ fw_active = FALSE

\* one iteration of ForbiddenWordsFeature._worker_loop, the trainers'
\* configurations being iterated in `order`
forbidden_tick(order) ==
    /\ feat = "forbidden"
    /\ LET active_configs == ActiveTrainerConfigs("feature_forbidden_words")
           pruned == Pruned(fw_state, active_configs, NoState)
           now_active == active_configs # {}
           st0 == IF now_active /\ ~fw_active
                  THEN reset_tag_on(StoreState, FwTag)
                  ELSE StoreState
           st1 == get_new_text_on(st0, FwTag)
           normalised_text == normalise(st1.last[FwTag].text)
           r == IF normalised_text = <<>>
                THEN [state |-> pruned, fired |-> <<>>]
                ELSE fw_loop(order, 1, pruned, normalised_text)
       IN /\ order \in Orders(active_configs)
          /\ fw_active' = now_active
          /\ IF ~now_active
             THEN /\ fw_state' = pruned
                  /\ tick' = [NoTick EXCEPT !.feat = feat]
                  /\ last_shock' = ShocksAfter(active_configs, <<>>)
                  /\ UNCHANGED wvars
             ELSE /\ SetStore(st1)
                  /\ UNCHANGED <<transcript, w_call>>
                  /\ fw_state' = r.state
                  /\ tick' = [NoTick EXCEPT !.feat = feat,
                                            !.text = normalised_text,
                                            !.fired = r.fired]
                  /\ last_shock' = ShocksAfter(active_configs, r.fired)
    /\ UNCHANGED <<now, latest_settings, feat, pull_last, stable>>
    /\ UNCHANGED notFw
    /\ UNCHANGED notPet

(***************************************************************************)
(* Word game (logic/pet/wordgame.py)                                       *)
(***************************************************************************)
WgCooldownSeconds == 5

WgShockStrength == 20

\* 0.5 s, in tenths of a second
WgShockDuration == 5

\* _active_word_game returns None or a non-empty string
NoGame == ""

\* the values of the settings key "word_game"
GameNames == {"", "pronouns", " Pronouns", "Off", "simon"}

\* str.strip on a game name
wg_strip(name) ==
    CASE name = " Pronouns" -> "Pronouns"
      [] OTHER -> name

\* WordFeature._normalise_game_name: (name or "").strip().lower()
normalise_game_name(name) ==
    CASE wg_strip(name) = "Pronouns" -> "pronouns"
      [] wg_strip(name) = "Off" -> "off"
      [] OTHER -> wg_strip(name)

\* the keys of WordFeature._game_handlers
wg_game_handlers == {"pronouns"}

\* WordFeature._disallowed_tokens
wg_disallowed_tokens ==
    {<<"i">>, <<"i", "m">>, <<"i", "'", "m">>, <<"i", "v", "e">>,
     <<"i", "'", "v", "e">>, <<"i", "l", "l">>, <<"i", "'", "l", "l">>,
     <<"m", "e">>, <<"m", "y">>, <<"m", "i", "n", "e">>,
     <<"m", "y", "s", "e", "l", "f">>}

\* ch.isalpha() or ch in ("'", "’")
wg_keeps(ch) == IsAlpha(ch) \/ ch = "'"

wg_not_apostrophe(ch) == ch # "'"

\* the token of _contains_disallowed_pronouns after the join and lower()
wg_cleaned(raw_token) ==
    LET kept == SelectSeq(raw_token, wg_keeps)
    IN [i \in 1..Len(kept) |-> Lower(kept[i])]

\* _contains_disallowed_pronouns looking for a pronoun anywhere in the text
contains_disallowed_pronouns_Substring(text) ==
    \E pronoun \in wg_disallowed_tokens :
        Contains([i \in 1..Len(text) |-> Lower(text[i])], pronoun)

\* WordFeature._contains_disallowed_pronouns
contains_disallowed_pronouns(text) ==
    LET tokens == SplitWords(text, <<>>)
    IN \E i \in 1..Len(tokens) :
           LET cleaned == wg_cleaned(tokens[i])
               no_apostrophe == SelectSeq(cleaned, wg_not_apostrophe)
           IN /\ cleaned # <<>>
              /\ \/ cleaned \in wg_disallowed_tokens
                 \/ no_apostrophe # <<>> /\ no_apostrophe \in wg_disallowed_tokens

\* the loop of WordFeature._active_word_game over configs.values(), from
\* position i of `order` on
RECURSIVE active_word_game(_, _)
active_word_game(order, i) ==
    IF i > Len(order) THEN NoGame
    ELSE LET game == wg_strip(latest_settings[order[i]].word_game)
         IN IF game # ""
               /\ normalise_game_name(game) \notin {"none", "off", "disabled"}
            THEN game
            ELSE active_word_game(order, i + 1)

\* the trainers with an entry in the settings cache
CachedTrainers == {t \in Trainers : latest_settings[t].present}

\* WordFeature.__init__, then start() on an empty transcript: reset_tag has
\* created the feature's cursor at the transcript's end
WgInit ==
    /\ wg_active_game = NoGame
    /\ wg_cooldown_until = 0

WgStarted ==
    /\ transcript = <<>>
    /\ tag_positions = [t \in TagKeys |-> IF t = WgTag THEN 0 ELSE NoPos]
    /\ tagInit = [t \in TagKeys |-> IF t = WgTag THEN 0 ELSE NoPos]
    /\ wasReset = [t \in TagKeys |-> t = WgTag]
    /\ delivered = [t \in TagKeys |-> <<>>]
    /\ lastRead = [t \in TagKeys |-> NoRead]
    /\ w_call = NoStoreCall

\* one iteration of WordFeature._worker_loop, the cached configurations being
\* iterated in `order`
wordgame_tick(order) ==
    /\ feat = "wordgame"
    /\ order \in Orders(CachedTrainers)
    /\ LET active_game == active_word_game(order, 1)
           st1 == get_new_text_on(StoreState, WgTag)
           text == st1.last[WgTag].text
           handled == normalise_game_name(active_game) \in wg_game_handlers
           shock == /\ handled
                    /\ text # <<>>
                    /\ contains_disallowed_pronouns(text)
                    /\ now >= wg_cooldown_until
       IN /\ wg_active_game' = active_game
          /\ IF active_game = NoGame
             THEN /\ tick' = [NoTick EXCEPT !.feat = feat]
                  /\ UNCHANGED wvars
                  /\ UNCHANGED wg_cooldown_until
             ELSE /\ SetStore(st1)
                  /\ UNCHANGED <<transcript, w_call>>
                  /\ wg_cooldown_until' =
                         IF shock THEN now + WgCooldownSeconds
                         ELSE wg_cooldown_until
                  /\ tick' = [NoTick EXCEPT
                                 !.feat = feat,
                                 !.text = IF handled THEN text ELSE <<>>,
                                 !.fired = IF shock
                                           THEN <<ShockRequest("pronouns",
                                                      WgShockStrength,
                                                      WgShockDuration)>>
                                           ELSE <<>>]
    /\ UNCHANGED <<now, latest_settings, feat, last_shock, pull_last, stable>>
    /\ UNCHANGED notWg
    /\ UNCHANGED notPet

\* settings that select a word game
CfgGame(name) == [CfgOff EXCEPT !.word_game = name]

\* the settings each trainer pushes while the word game is observed
WordGameConfigs ==
    [t \in Trainers |->
        IF t = "A" THEN {NoConfig, CfgGame("pronouns"), CfgGame("Off")}
        ELSE {NoConfig, CfgGame(" Pronouns"), CfgGame("simon")}]

\* chunks the pet speaks while the word game is observed
WgChunkTexts == {<<"a">>, <<"I", "'", "m", "!">>, <<"a", "i", "m">>}

\* the speech worker appends a chunk while the word game runs
WgSpeak(text) ==
    /\ feat = "wordgame"
    /\ Len(transcript) < MaxSpeech
    /\ AppendChunk(text)

WordGameNext ==
    \/ AdvanceTime
    \/ \E t \in Trainers : \E c \in WordGameConfigs[t] : SetConfig(t, c)
    \/ \E text \in WgChunkTexts : WgSpeak(text)
    \/ \E o \in AllOrders : wordgame_tick(o)

(***************************************************************************)
(* Session channel (interfaces/server.py)                                  *)
(***************************************************************************)
\* messages the incoming queue holds in the model; the queue.Queue of the
\* code is unbounded
MaxQueue == 3

\* the `limit` FocusFeature._collect_focus_events passes
FocusPollLimit == 10

PollLimits == {1, FocusPollLimit}

\* a command message of trainer t for a feature
CommandEvent(t, feature) ==
    [type |-> "command", from_client |-> t, feature |-> feature,
     payload |-> NoConfig]

\* a config message of trainer t with the settings c as its payload
ConfigEvent(t, c) ==
    [type |-> "config", from_client |-> t, feature |-> "", payload |-> c]

PollFeatures == {"focus", "tricks"}

\* the messages the websocket delivers
ChannelEvents ==
    {CommandEvent("A", f) : f \in PollFeatures}
        \cup {CommandEvent("B", "focus"), ConfigEvent("A", CfgPlain),
              ConfigEvent("B", CfgSlow)}

\* the predicate of FocusFeature._collect_focus_events, for a feature tag
matches_feature(evt, feature) ==
    evt.type = "command" /\ evt.feature = feature

\* the runs in which the websocket delivers messages: the channel on its own
\* and pet Focus polling it
ChannelUsers == {"channel", "focus"}

NoPoll == [called |-> FALSE, feature |-> "", before |-> <<>>, matched |-> <<>>]

ChInit ==
    /\ ch_connected = FALSE
    /\ ch_incoming = <<>>
    /\ ch_latest_settings = NoConfig
    /\ ch_pushed = [t \in Trainers |-> NoConfig]
    /\ ch_poll = NoPoll

\* _connect_ws._on_open
on_open ==
    /\ feat \in ChannelUsers
    /\ ~ch_connected
    /\ ch_connected' = TRUE
    /\ UNCHANGED <<ch_incoming, ch_latest_settings, ch_pushed, ch_poll>>
    /\ UNCHANGED <<wvars, evars, notCh>>
    /\ UNCHANGED notPet

\* _connect_ws._on_close
on_close ==
    /\ feat \in ChannelUsers
    /\ ch_connected
    /\ ch_connected' = FALSE
    /\ UNCHANGED <<ch_incoming, ch_latest_settings, ch_pushed, ch_poll>>
    /\ UNCHANGED <<wvars, evars, notCh>>
    /\ UNCHANGED notPet

\* _connect_ws._on_message for a well-formed message
on_message(data) ==
    /\ feat \in ChannelUsers
    /\ ch_connected
    /\ Len(ch_incoming) < MaxQueue
    /\ ch_latest_settings' =
           IF data.type = "config" THEN data.payload ELSE ch_latest_settings
    /\ ch_incoming' = Append(ch_incoming, data)
    /\ ch_pushed' =
           IF data.type = "config"
           THEN [ch_pushed EXCEPT ![data.from_client] = data.payload]
           ELSE ch_pushed
    /\ UNCHANGED <<ch_connected, ch_poll>>
    /\ UNCHANGED <<wvars, evars, notCh>>
    /\ UNCHANGED notPet

\* the events poll_events takes off the queue: get_nowait() until `limit`
\* events are drained or the queue is empty
drained_events(queue, limit) == SubSeq(queue, 1, Min2(limit, Len(queue)))

\* the events poll_events leaves on the queue
remaining_events(queue, limit) ==
    SubSeq(queue, Min2(limit, Len(queue)) + 1, Len(queue))

\* `matched` of poll_events
matched_events(queue, limit, feature) ==
    LET predicate(evt) == matches_feature(evt, feature)
    IN SelectSeq(drained_events(queue, limit), predicate)

\* poll_events(limit, predicate=...) with the predicate of a feature
poll_events(limit, feature) ==
    /\ feat = "channel"
    /\ IF ~ch_connected
       THEN /\ ch_poll' = [called |-> TRUE, feature |-> feature,
                           before |-> ch_incoming, matched |-> <<>>]
            /\ UNCHANGED ch_incoming
       ELSE /\ ch_poll' = [called |-> TRUE, feature |-> feature,
                           before |-> ch_incoming,
                           matched |-> matched_events(ch_incoming, limit,
                                                      feature)]
            /\ ch_incoming' = remaining_events(ch_incoming, limit)
    /\ UNCHANGED <<ch_connected, ch_latest_settings, ch_pushed>>
    /\ UNCHANGED <<wvars, evars, notCh>>
    /\ UNCHANGED notPet

\* the settings the cache holds: latest_settings returns
\* dict(self._latest_settings), one mapping
cached_settings ==
    IF ch_latest_settings.present THEN {ch_latest_settings} ELSE {}

ChannelNext ==
    \/ on_open
    \/ on_close
    \/ \E data \in ChannelEvents : on_message(data)
    \/ \E limit \in PollLimits, f \in PollFeatures : poll_events(limit, f)

(***************************************************************************)
(* Pull (logic/pet/pull.py)                                                *)
(*                                                                         *)
(* Stretch values are multiples of 1/StretchDen; with StretchDen = 160,    *)
(* (stretch - 0.5) * 80 is (u - 80) / 2 for the reading u / 160.           *)
(***************************************************************************)
StretchDen == 160

PullTargets == <<"LeftEar", "RightEar", "Tail">>

\* self._stretch_threshold = 0.5
PullThreshold == StretchDen \div 2

PullCooldownSeconds == 2

\* float(raw.strip()) for the strings of OscStrings; none = ValueError
StrFloat(str) ==
    CASE StripLower(str) = "1" -> [raised |-> FALSE, f |-> StretchDen]
      [] StripLower(str) = "0" -> [raised |-> FALSE, f |-> 0]
      [] OTHER -> [raised |-> TRUE, f |-> 0]

\* PullFeature._get_bool_param on the value get_parameter(name) handed back
pull_get_bool_param(raw) ==
    CASE raw.k \in {"none", "absent"} -> FALSE
      [] raw.k \in {"bool", "num"} -> raw.v # 0
      [] raw.k = "str" ->
           IF StripLower(raw.s) \in {"1", "true", "yes", "on"} THEN TRUE
           ELSE IF StripLower(raw.s) \in {"0", "false", "no", "off"} THEN FALSE
           ELSE StrTruthy(raw.s)

\* PullFeature._get_float_param on the value get_parameter(name) handed back
pull_get_float_param(raw) ==
    CASE raw.k \in {"none", "absent"} -> 0
      [] raw.k = "bool" -> IF raw.v # 0 THEN StretchDen ELSE 0
      [] raw.k = "num" -> Max2(0, Min2(StretchDen, raw.v))
      [] raw.k = "str" ->
           IF StrFloat(raw.s).raised THEN 0
           ELSE Max2(0, Min2(StretchDen, StrFloat(raw.s).f))

\* int((stretch - self._stretch_threshold) * 80), for stretch >= threshold
pull_extra(stretch) == ((stretch - PullThreshold) * 80) \div StretchDen

\* the strength PullFeature._deliver_correction requests
pull_strength(stretch) == Max2(10, Min2(100, 20 + pull_extra(stretch)))

\* the readings of <base>_IsGrabbed and <base>_Stretch a tick can meet
PullReadings ==
    {[grab |-> OscBool(FALSE), stretch |-> OscNum(128)],
     [grab |-> OscBool(TRUE), stretch |-> OscNum(60)],
     [grab |-> OscNum(1), stretch |-> OscNum(80)],
     [grab |-> OscBool(TRUE), stretch |-> OscNum(85)],
     [grab |-> OscBool(TRUE), stretch |-> OscNum(120)],
     [grab |-> OscStr("On"), stretch |-> OscNum(128)],
     [grab |-> OscBool(TRUE), stretch |-> OscStr("1")],
     [grab |-> OscBool(TRUE), stretch |-> OscNum(200)],
     [grab |-> OscStr(" off"), stretch |-> OscNum(128)],
     [grab |-> Absent, stretch |-> Absent]}

\* one reading per target: any for the first, three for the second, two for
\* the third
PullReadingTuples ==
    {r \in [1..Len(PullTargets) -> PullReadings] :
        /\ r[2] \in {[grab |-> OscBool(FALSE), stretch |-> OscNum(128)],
                     [grab |-> OscBool(TRUE), stretch |-> OscNum(120)],
                     [grab |-> Absent, stretch |-> Absent]}
        /\ r[3] \in {[grab |-> OscBool(FALSE), stretch |-> OscNum(128)],
                     [grab |-> OscStr("On"), stretch |-> OscNum(128)]}}

\* the test of _check_and_maybe_shock without `is_grabbed and`
pull_is_match_StretchOnly(reading) ==
    pull_get_float_param(reading.stretch) >= PullThreshold

\* `is_grabbed and stretch >= self._stretch_threshold` for one target
pull_is_match(reading) ==
    /\ pull_get_bool_param(reading.grab)
    /\ pull_get_float_param(reading.stretch) >= PullThreshold

\* PullFeature._check_and_maybe_shock from target i on: the first target that
\* is grabbed and stretched to the threshold, or 0
RECURSIVE pull_first_match(_, _)
pull_first_match(readings, i) ==
    IF i > Len(PullTargets) THEN 0
    ELSE IF pull_is_match(readings[i])
         THEN i
         ELSE pull_first_match(readings, i + 1)

PlInit == pull_cooldown_until = 0

\* one iteration of PullFeature._worker_loop with the parameter readings
\* `readings` (one per target)
pull_tick(readings) ==
    /\ feat = "pull"
    /\ LET hit == IF now >= pull_cooldown_until
                  THEN pull_first_match(readings, 1) ELSE 0
           stretch == pull_get_float_param(readings[hit].stretch)
       IN IF hit = 0
          THEN /\ tick' = [NoTick EXCEPT !.feat = feat,
                                         !.readings = readings]
               /\ UNCHANGED <<pull_cooldown_until, pull_last, stable>>
          ELSE /\ pull_cooldown_until' = now + PullCooldownSeconds
               /\ tick' = [NoTick EXCEPT
                             !.feat = feat,
                             !.target = PullTargets[hit],
                             !.stretch = stretch,
                             !.readings = readings,
                             !.fired = <<ShockRequest("none",
                                            pull_strength(stretch), 5)>>]
               /\ pull_last' = [some |-> TRUE, at |-> now]
               /\ stable' = [t \in Trainers |-> TRUE]
    /\ UNCHANGED <<now, latest_settings, feat, last_shock>>
    /\ UNCHANGED <<wvars, notPl>>
    /\ UNCHANGED notPet

(***************************************************************************)
(* Focus (logic/pet/focus.py); the meter is kept in hundredths             *)
(***************************************************************************)
FcBaseCooldown == 5

\* self._fill_rate = 0.2 per second
FcFillRate == 20

\* self._drain_rate = 0.02 per second
FcDrainRate == 2

\* self._shock_threshold = 0.2
FcShockThreshold == 20

\* self._name_penalty = 0.15
FcNamePenalty == 15

FcStrengthMin == 20

FcStrengthMax == 80

\* 0.5 s, in tenths of a second
FcBaseDuration == 5

NoFocus == [present |-> FALSE, last_tick |-> 0, focus_meter |-> 0,
            cooldown_until |-> 0]

\* _TrainerFocusState(now)
NewFocusState(at) ==
    [present |-> TRUE, last_tick |-> at, focus_meter |-> 100,
     cooldown_until |-> 0]

\* FocusFeature._cooldown_seconds
fc_cooldown_seconds(config) ==
    Max2(0, ScaledValue(FcBaseCooldown, config, "cooldown_scale"))

\* FocusFeature._shock_params
fc_shock_params(config) ==
    LET shock_min == Max2(0, ScaledValue(FcStrengthMin, config, "strength_scale"))
    IN [shock_min |-> shock_min,
        shock_max |-> Max2(shock_min,
                          ScaledValue(FcStrengthMax, config, "strength_scale")),
        duration |-> Max2(0, ScaledValue(FcBaseDuration, config, "duration_scale"))]

\* the strength FocusFeature._deliver_correction requests
fc_strength(meter, config) ==
    LET sp == fc_shock_params(config)
    IN Max2(sp.shock_min,
            Min2(sp.shock_max,
                 ((FcShockThreshold - meter) * sp.shock_max) \div FcShockThreshold))

\* _apply_remote_penalties_for_trainer for n events
fc_penalised(meter, n) ==
    IF n = 0 THEN meter ELSE Max2(0, meter - n * FcNamePenalty)

\* _update_meter without max(0.0, min(1.0, ...))
fc_update_meter_NoClamp(meter, focused, dt) ==
    meter + (IF focused THEN FcFillRate ELSE -FcDrainRate) * dt

\* FocusFeature._update_meter
fc_update_meter(meter, focused, dt) ==
    Max2(0, Min2(100, meter + (IF focused THEN FcFillRate ELSE -FcDrainRate) * dt))

\* FocusFeature._should_shock
fc_should_shock(st) ==
    IF now < st.cooldown_until THEN FALSE
    ELSE st.focus_meter <= FcShockThreshold

\* the loop over active_configs.items() from position i of `order` on
RECURSIVE fc_loop(_, _, _, _, _)
fc_loop(order, i, state, penalties, raw_focus) ==
    IF i > Len(order) THEN [state |-> state, fired |-> <<>>]
    ELSE LET trainer_id == order[i]
             config == latest_settings[trainer_id]
             st0 == IF state[trainer_id].present THEN state[trainer_id]
                    ELSE NewFocusState(now)
             dt == Max2(0, now - st0.last_tick)
             focused == bool_of_raw(raw_focus, OscBool(TRUE))
             meter == fc_update_meter(
                          fc_penalised(st0.focus_meter, penalties[trainer_id]),
                          focused, dt)
             st1 == [st0 EXCEPT !.last_tick = now, !.focus_meter = meter]
             shock == fc_should_shock(st1)
             st2 == IF shock
                    THEN [st1 EXCEPT !.cooldown_until =
                                         now + fc_cooldown_seconds(config)]
                    ELSE st1
             rest == fc_loop(order, i + 1,
                             [state EXCEPT ![trainer_id] = st2],
                             penalties, raw_focus)
         IN [state |-> rest.state,
             fired |-> (IF shock
                        THEN <<ShockRequest(trainer_id,
                                   fc_strength(meter, config),
                                   fc_shock_params(config).duration)>>
                        ELSE <<>>) \o rest.fired]

FcInit == fc_state = [t \in Trainers |-> NoFocus]

\* one iteration of FocusFeature._worker_loop: `penalties` counts the focus
\* command events polled per sender, raw_focus is what the store holds for
\* Trainer/Focus
focus_tick(order, penalties, raw_focus) ==
    /\ feat = "focus"
    /\ LET active_configs == ActiveTrainerConfigs("feature_focus")
           pruned == Pruned(fc_state, active_configs, NoFocus)
           r == IF active_configs = {}
                THEN [state |-> pruned, fired |-> <<>>]
                ELSE fc_loop(order, 1, pruned, penalties, raw_focus)
       IN /\ order \in Orders(active_configs)
          /\ fc_state' = r.state
          /\ tick' = [NoTick EXCEPT !.feat = feat,
                                    !.fired = r.fired]
          /\ last_shock' = ShocksAfter(active_configs, r.fired)
    /\ UNCHANGED <<now, latest_settings, feat, pull_last, stable>>
    /\ UNCHANGED <<wvars, notFc>>
    /\ UNCHANGED notPet

\* Trainer/Focus never received (the default, True) and received without a
\* value
FocusReadings == {Absent, OscNone}

\* the numbers of focus events from one sender in a poll
FocusEventCounts == {0, 1, 6}

\* one iteration of the worker loop on which the poll returned n focus events
\* from trainer t and none from anybody else; the tick remembers the events
\* and the value of Trainer/Focus it read
focus_event_tick(t, n, order, raw_focus) ==
    LET penalties == [u \in Trainers |-> IF u = t THEN n ELSE 0]
        active_configs == ActiveTrainerConfigs("feature_focus")
        pruned == Pruned(fc_state, active_configs, NoFocus)
        r == IF active_configs = {}
             THEN [state |-> pruned, fired |-> <<>>]
             ELSE fc_loop(order, 1, pruned, penalties, raw_focus)
    IN /\ feat = "focus"
       /\ order \in Orders(active_configs)
       /\ fc_state' = r.state
       /\ tick' = [NoTick EXCEPT !.feat = feat,
                                 !.fired = r.fired,
                                 !.speaker = t,
                                 !.events = n,
                                 !.readings = <<raw_focus>>]
       /\ last_shock' = ShocksAfter(active_configs, r.fired)
       /\ UNCHANGED <<now, latest_settings, feat, pull_last, stable>>
       /\ UNCHANGED <<wvars, notFc>>
       /\ UNCHANGED notPet

\* `if not active_configs:` of FocusFeature._worker_loop never taken
fc_polls_Always(active_configs) == TRUE

\* whether an iteration of FocusFeature._worker_loop gets as far as
\* _collect_focus_events
fc_polls(active_configs) == active_configs # {}

\* _collect_focus_events: the number of events per sender that
\* poll_events(limit=10, predicate=...) matched
collect_focus_events ==
    LET events == IF ch_connected
                  THEN matched_events(ch_incoming, FocusPollLimit, "focus")
                  ELSE <<>>
    IN [t \in Trainers |->
           Cardinality({i \in 1..Len(events) : events[i].from_client = t})]

\* one iteration of FocusFeature._worker_loop with the session channel it
\* polls: ch_poll remembers whether poll_events was called and the queue the
\* iteration found
focus_poll_tick(order, raw_focus) ==
    LET active_configs == ActiveTrainerConfigs("feature_focus")
        pruned == Pruned(fc_state, active_configs, NoFocus)
        polls == fc_polls(active_configs)
        penalties == IF polls THEN collect_focus_events
                     ELSE [t \in Trainers |-> 0]
        r == IF active_configs = {}
             THEN [state |-> pruned, fired |-> <<>>]
             ELSE fc_loop(order, 1, pruned, penalties, raw_focus)
    IN /\ feat = "focus"
       /\ order \in Orders(active_configs)
       /\ fc_state' = r.state
       /\ ch_incoming' = IF polls /\ ch_connected
                         THEN remaining_events(ch_incoming, FocusPollLimit)
                         ELSE ch_incoming
       /\ ch_poll' = [called |-> polls, feature |-> "focus",
                      before |-> ch_incoming,
                      matched |-> IF polls /\ ch_connected
                                  THEN matched_events(ch_incoming,
                                                      FocusPollLimit, "focus")
                                  ELSE <<>>]
       /\ tick' = [NoTick EXCEPT !.feat = feat,
                                 !.fired = r.fired,
                                 !.events = penalties["A"] + penalties["B"],
                                 !.pruned = {t \in Trainers :
                                                fc_state[t].present
                                                    /\ t \notin active_configs},
                                 !.readings = <<raw_focus>>]
       /\ last_shock' = ShocksAfter(active_configs, r.fired)
       /\ UNCHANGED <<ch_connected, ch_latest_settings, ch_pushed>>
       /\ UNCHANGED <<now, latest_settings, feat, pull_last, stable>>
       /\ UNCHANGED <<wvars, fwvars, wgvars, plvars, tkvars, lcvars, tlvars,
                      psvars, pxvars>>
       /\ UNCHANGED notPet

\* the numbers of focus events one poll (limit=10) returns per sender
FocusPenalties ==
    {p \in [Trainers -> {0, 6}] : p["A"] + p["B"] <= 10}

(***************************************************************************)
(* Tricks (logic/pet/tricks.py)                                            *)
(***************************************************************************)
TkBaseCommandTimeout == 5

TkBaseCooldown == 2

TkBaseStrength == 35

\* 0.5 s, in tenths of a second
TkBaseDuration == 5

\* the keys of self._command_phrases
CommandNames == {"paw", "sit", "lay_down", "beg", "play_dead", "roll_over"}

\* self._command_phrases
command_phrases ==
    [paw |-> {"paw", "poor", "pour", "pore"},
     sit |-> {"sit"},
     lay_down |-> {"lay down", "laydown", "lie down", "layed down"},
     beg |-> {"beg"},
     play_dead |-> {"play dead", "playdead", "played dead"},
     roll_over |-> {"rollover", "roll over"}]

NoEvent == "<no event>"

\* the phrase of the first trick event polled for a trainer
TrickPhrases == {" PAW!", "lay down"}

\* TricksFeature._normalise_text on the phrases of TrickPhrases
tk_normalise_text(text) ==
    CASE text = " PAW!" -> "paw"
      [] text = "sit" -> "sit"
      [] text = "lay down" -> "lay down"
      [] text = "Lay_Down" -> "lay_down"
      [] OTHER -> text

\* what the parameter store holds for the five pose parameters
PoseReadings == {NoPose, [NoPose EXCEPT !.paw = OscBool(TRUE)]}

\* TricksFeature._is_command_completed
is_command_completed(command, pose) ==
    LET paw == bool_of_raw(pose.paw, OscBool(FALSE))
        hand == bool_of_raw(pose.hand, OscBool(FALSE))
        foot == bool_of_raw(pose.foot, OscBool(FALSE))
        hips == bool_of_raw(pose.hips, OscBool(FALSE))
        head == bool_of_raw(pose.head, OscBool(FALSE))
    IN CASE command = "paw" -> paw
         [] command = "sit" -> hand /\ foot /\ hips /\ ~head
         [] command = "lay_down" -> hand /\ foot /\ hips /\ head
         [] command = "beg" -> ~hand /\ foot /\ hips /\ ~head
         [] command \in {"play_dead", "roll_over"} ->
                ~hand /\ ~foot /\ hips /\ head
         [] OTHER -> FALSE

\* TricksFeature._command_timeout
tk_command_timeout(config) ==
    Max2(0, ScaledValue(TkBaseCommandTimeout, config, "delay_scale"))

\* TricksFeature._cooldown_seconds
tk_cooldown_seconds(config) ==
    Max2(0, ScaledValue(TkBaseCooldown, config, "cooldown_scale"))

\* TricksFeature._shock_params
tk_shock_params(config) ==
    [strength |-> Max2(0, ScaledValue(TkBaseStrength, config, "strength_scale")),
     duration |-> Max2(0, ScaledValue(TkBaseDuration, config, "duration_scale"))]

NoTrick == [present |-> FALSE, pending |-> FALSE, name |-> "", deadline |-> 0,
            cooldown_until |-> 0]

\* _TrainerTrickState()
NewTrickState == [NoTrick EXCEPT !.present = TRUE]

\* TricksFeature._maybe_start_command for an event with the phrase `phrase`
maybe_start_command(st, phrase, config) ==
    IF phrase = "" \/ tk_normalise_text(phrase) \notin CommandNames THEN st
    ELSE [st EXCEPT !.pending = TRUE, !.name = tk_normalise_text(phrase),
                    !.deadline = now + tk_command_timeout(config)]

\* the failure branch without the deadline test
tk_timed_out_Early(st) == now >= st.cooldown_until

\* `now >= state.pending.deadline and now >= state.cooldown_until`
tk_timed_out(st) == now >= st.deadline /\ now >= st.cooldown_until

\* the timeout tested before the pose
tk_branch_TimeoutFirst(st, pose) ==
    IF tk_timed_out(st) THEN "failure"
    ELSE IF is_command_completed(st.name, pose) THEN "success"
    ELSE "none"

\* the branch of `if self._is_command_completed(...): ... elif now >= ...`
\* taken for a pending command
tk_branch(st, pose) ==
    IF is_command_completed(st.name, pose) THEN "success"
    ELSE IF tk_timed_out(st) THEN "failure"
    ELSE "none"

\* every event starting a command
may_start_Always(st, event) == event # NoEvent

\* `state.pending is None and command_events.get(trainer_id)`
may_start(st, event) == ~st.pending /\ event # NoEvent

\* one pass of the loop body of _worker_loop for trainer_id, on the state
\* the trainer has after setdefault: what the state becomes and what is asked
\* of the actuator.  The body touches no other trainer's state.
tk_step(trainer_id, event, pose) ==
    LET config == latest_settings[trainer_id]
        st0 == IF tk_state[trainer_id].present THEN tk_state[trainer_id]
               ELSE NewTrickState
        st1 == IF may_start(st0, event)
               THEN maybe_start_command(st0, event, config)
               ELSE st0
        started == st1.pending /\ ~st0.pending
        completed == st1.pending /\ tk_branch(st1, pose) = "success"
        failure == st1.pending /\ tk_branch(st1, pose) = "failure"
    IN [state |-> IF completed
                  THEN [NewTrickState EXCEPT
                            !.cooldown_until = st1.cooldown_until]
                  ELSE IF failure
                  THEN [NewTrickState EXCEPT
                            !.cooldown_until =
                                now + tk_cooldown_seconds(config)]
                  ELSE st1,
        fired |-> (IF started THEN <<VibrateRequest(trainer_id, 10, 2)>>
                   ELSE <<>>)
                  \o (IF completed
                      THEN <<VibrateRequest(trainer_id, 10, 2),
                             VibrateRequest(trainer_id, 10, 2)>>
                      ELSE IF failure
                      THEN <<ShockRequest(trainer_id,
                                 tk_shock_params(config).strength,
                                 tk_shock_params(config).duration)>>
                      ELSE <<>>),
        done |-> completed,
        failed |-> IF failure
                   THEN <<[trainer |-> trainer_id, deadline |-> st1.deadline,
                           cooldown_until |-> st1.cooldown_until]>>
                   ELSE <<>>]

\* the actuator calls of the loop over active_configs.items(), in the order
\* of iteration, from position i on
RECURSIVE tk_fired(_, _, _, _)
tk_fired(order, i, events, pose) ==
    IF i > Len(order) THEN <<>>
    ELSE tk_step(order[i], events[order[i]], pose).fired
             \o tk_fired(order, i + 1, events, pose)

\* the commands that timed out in the loop, in the order of iteration
RECURSIVE tk_failed(_, _, _, _)
tk_failed(order, i, events, pose) ==
    IF i > Len(order) THEN <<>>
    ELSE tk_step(order[i], events[order[i]], pose).failed
             \o tk_failed(order, i + 1, events, pose)

TkInit == tk_state = [t \in Trainers |-> NoTrick]

\* the entries _prune_inactive_states pops: trainer, whether a command was
\* pending, and the cooldown that was running
tk_dropped ==
    {[trainer |-> t, pending |-> tk_state[t].pending,
      cooldown_until |-> tk_state[t].cooldown_until] :
        t \in {u \in Trainers :
                  /\ tk_state[u].present
                  /\ u \notin ActiveTrainerConfigs("feature_tricks")}}

\* self._state_by_trainer after one iteration of the worker loop
tk_after(events, pose) ==
    [t \in Trainers |->
        IF t \in ActiveTrainerConfigs("feature_tricks")
        THEN tk_step(t, events[t], pose).state
        ELSE Pruned(tk_state, ActiveTrainerConfigs("feature_tricks"),
                    NoTrick)[t]]

\* what one iteration of the worker loop did
tk_outcome(order, events, pose) ==
    [NoTick EXCEPT
        !.feat = feat,
        !.fired = tk_fired(order, 1, events, pose),
        !.done = {t \in ActiveTrainerConfigs("feature_tricks") :
                     tk_step(t, events[t], pose).done},
        !.failed = tk_failed(order, 1, events, pose),
        !.pruned = tk_dropped]

\* one iteration of TricksFeature._worker_loop: events[t] is the phrase of the
\* first trick event polled for sender t (or NoEvent), pose is what the
\* parameter store holds
tricks_tick(order, events, pose) ==
    /\ feat = "tricks"
    /\ order \in Orders(ActiveTrainerConfigs("feature_tricks"))
    /\ tk_state' = tk_after(events, pose)
    /\ tick' = tk_outcome(order, events, pose)
    /\ UNCHANGED <<now, latest_settings, feat, last_shock, pull_last, stable>>
    /\ UNCHANGED <<wvars, notTk>>
    /\ UNCHANGED notPet

\* the phrases of trick events, by what _maybe_start_command makes of them:
\* keys of the table in either case, phrases listed for a key, a phrase
\* the table does not hold, and the empty phrase
VocabularyPhrases ==
    {"sit", "Lay_Down", "lie down", "pour", "roll over", "jump", ""}

\* one iteration of the worker loop on which trainer t's first polled event
\* carries `phrase` and nobody else sent one; the tick remembers the event
\* and the pose it read
trick_event_tick(t, phrase, order, pose) ==
    LET events == [u \in Trainers |-> IF u = t THEN phrase ELSE NoEvent]
    IN /\ feat = "tricks"
       /\ order \in Orders(ActiveTrainerConfigs("feature_tricks"))
       /\ tk_state' = tk_after(events, pose)
       /\ tick' = [tk_outcome(order, events, pose) EXCEPT
                     !.speaker = t, !.phrase = phrase, !.pose = pose]
       /\ UNCHANGED <<now, latest_settings, feat, last_shock, pull_last,
                      stable>>
       /\ UNCHANGED <<wvars, notTk>>
       /\ UNCHANGED notPet

\* the settings pushed while the tricks or a lifecycle is observed
FewConfigs ==
    [t \in Trainers |->
        IF t = "A" THEN {NoConfig, CfgPlain} ELSE {NoConfig, CfgSlow}]

TricksTick ==
    \E o \in AllOrders, e \in [Trainers -> TrickPhrases \cup {NoEvent}],
       p \in PoseReadings : tricks_tick(o, e, p)

TricksNext ==
    \/ AdvanceTime
    \/ \E t \in Trainers : \E c \in FewConfigs[t] : SetConfig(t, c)
    \/ TricksTick

\* the trainer whose events are observed
Speakers == {"A"}

TrickEventTick ==
    \E t \in Speakers, ph \in VocabularyPhrases \cup {" PAW!", NoEvent},
       o \in AllOrders, p \in PoseReadings : trick_event_tick(t, ph, o, p)

TrickEventsNext ==
    \/ AdvanceTime
    \/ \E t \in Trainers : \E c \in FewConfigs[t] : SetConfig(t, c)
    \/ TrickEventTick

(***************************************************************************)
(* Proximity (logic/pet/proximity.py)                                      *)
(* Deadlines and cooldowns are in tenths of a second, the breach duration  *)
(* in hundredths, the proximity value in tenths.                           *)
(***************************************************************************)
\* self._proximity_threshold, 0.4
PxThreshold == 4

\* self._command_target
PxCommandTarget == 10

\* self._base_breach_duration, 0.5 s, in tenths of a second
PxBaseBreachDuration == 5

PxBaseCooldown == 5

PxBaseStrengthMin == 20

PxBaseStrengthMax == 80

\* 0.5 s, in tenths of a second
PxBaseShockDuration == 5

PxBaseCommandTimeout == 4

\* what get_float_param("Trainer/Proximity", default=1.0) returns: below the
\* threshold, the threshold, and the value read before any message
PxReadings == {3, PxThreshold, PxCommandTarget}

\* Proximity enabled, no scaling keys
PxPlain ==
    [present |-> TRUE, flags |-> {"feature_proximity"},
     forbidden_words |-> <<>>, scales |-> DefaultScales, word_game |-> ""]

\* Proximity enabled, delays halved and a cooldown of one second
PxQuick ==
    [present |-> TRUE, flags |-> {"feature_proximity"},
     forbidden_words |-> <<>>,
     scales |-> [DefaultScales EXCEPT !["delay_scale"] = Num(5),
                                      !["cooldown_scale"] = Num(2)],
     word_game |-> ""]

\* the settings pushed while Proximity is observed
ProximityConfigs ==
    [t \in Trainers |->
        IF t = "A" THEN {NoConfig, PxPlain} ELSE {NoConfig, PxQuick}]

\* last_sample_log = 0.0, more than a second before any reading of the clock
NoSample == -1

\* no entry in self._state_by_trainer.  near_seen is an observation, not a
\* field: a tick since breach_started_at was set read a value at or above
\* the threshold
NoProximity ==
    [present |-> FALSE, breach |-> FALSE, breach_started_at |-> 0,
     cooldown_until |-> 0, pending |-> FALSE, pending_command_deadline |-> 0,
     pending_command_from |-> "", last_sample_log |-> NoSample,
     near_seen |-> FALSE]

\* _TrainerProximityState()
NewProximityState == [NoProximity EXCEPT !.present = TRUE]

PxInit == px_state = [t \in Trainers |-> NoProximity]

\* ProximityFeature._command_timeout, in tenths of a second
px_command_timeout(config) ==
    Max2(0, PxBaseCommandTimeout
                * scaling_from_config(config.scales)["delay_scale"].v)

\* ProximityFeature._cooldown_seconds, in tenths of a second
px_cooldown_seconds(config) ==
    Max2(0, PxBaseCooldown
                * scaling_from_config(config.scales)["cooldown_scale"].v)

\* ProximityFeature._breach_duration, in hundredths of a second
px_breach_duration(config) ==
    Max2(0, PxBaseBreachDuration
                * scaling_from_config(config.scales)["delay_scale"].v)

\* int(x) of the quotient n / d: towards zero
IntOfQuotient(n, d) == IF n >= 0 THEN n \div d ELSE -((-n) \div d)

\* ProximityFeature._shock_params, strengths and duration in tenths
px_shock_params(config) ==
    CHOOSE params \in
        {[shock_min |-> r.shock_min, shock_max |-> r.shock_max,
          duration |-> Max2(0, ScaledValue(PxBaseShockDuration, config,
                                           "duration_scale"))] :
            r \in {scaled_strength_range(config.scales, PxBaseStrengthMin,
                                         PxBaseStrengthMax)}} : TRUE

\* the send_shock call of _deliver_correction: deficit = (threshold - value)
\* / threshold, strength = max(shock_min, min(shock_max, int(deficit *
\* shock_max)))
px_correction(trainer_id, config, reason, proximity_value) ==
    CHOOSE call \in
        {[kind |-> "shock", trainer |-> trainer_id,
          strength |->
              Max2(p.shock_min,
                   Min2(p.shock_max,
                        10 * IntOfQuotient((PxThreshold - proximity_value)
                                               * p.shock_max,
                                           PxThreshold * 10))),
          duration |-> p.duration, reason |-> reason] :
            p \in {px_shock_params(config)}} : TRUE

\* ProximityFeature._meets_command_target
meets_command_target(proximity_value) == proximity_value >= PxCommandTarget

\* a summon leaving the deadline of a pending summon as it is
px_summon_KeepPending(st, trainer_id, config) ==
    IF st.pending THEN st
    ELSE [st EXCEPT !.pending = TRUE, !.pending_command_from = trainer_id,
                    !.pending_command_deadline =
                        now * 10 + px_command_timeout(config)]

\* `if summon_events.get(trainer_id):` and the two assignments under it
px_summon(st, trainer_id, config) ==
    [st EXCEPT !.pending = TRUE, !.pending_command_from = trainer_id,
               !.pending_command_deadline =
                   now * 10 + px_command_timeout(config)]

\* _is_too_far called whatever the cooldown
px_checks_breach_Always(st) == TRUE

\* `now >= state.cooldown_until and ...`: whether _is_too_far is called
px_checks_breach(st) == now * 10 >= st.cooldown_until

\* ProximityFeature._is_too_far: the state it leaves and what it returns
is_too_far(proximity_value, st, config) ==
    IF proximity_value >= PxThreshold
    THEN [state |-> [st EXCEPT !.breach = FALSE, !.breach_started_at = 0,
                               !.near_seen = FALSE],
          far |-> FALSE]
    ELSE IF ~st.breach
    THEN [state |-> [st EXCEPT !.breach = TRUE, !.breach_started_at = now,
                               !.near_seen = FALSE],
          far |-> FALSE]
    ELSE [state |-> st,
          far |-> (now - st.breach_started_at) * 100
                      >= px_breach_duration(config)]

\* ProximityFeature._log_sample
px_sampled(st) ==
    ~(st.last_sample_log # NoSample /\ now - st.last_sample_log < 1)

\* the state of trainer_id after setdefault and the summon branch, and
\* whether the summon found one pending
px_armed(trainer_id, summoned) ==
    LET st0 == IF px_state[trainer_id].present THEN px_state[trainer_id]
               ELSE NewProximityState
    IN [state |-> IF summoned
                  THEN px_summon(st0, trainer_id, latest_settings[trainer_id])
                  ELSE st0,
        rearmed |-> summoned /\ st0.pending]

\* `if state.pending_command_deadline is not None:` and its two branches,
\* on what px_armed left
px_resolved(trainer_id, proximity_value, armed) ==
    LET config == latest_settings[trainer_id]
        st1 == armed.state
        success == st1.pending /\ meets_command_target(proximity_value)
        missed == /\ st1.pending
                  /\ ~success
                  /\ now * 10 >= st1.pending_command_deadline
                  /\ now * 10 >= st1.cooldown_until
        cleared == [st1 EXCEPT !.pending = FALSE,
                               !.pending_command_deadline = 0,
                               !.pending_command_from = ""]
    IN [state |-> IF success THEN cleared
                  ELSE IF missed
                  THEN [cleared EXCEPT
                           !.cooldown_until =
                               now * 10 + px_cooldown_seconds(config)]
                  ELSE st1,
        rearmed |-> armed.rearmed, success |-> success, missed |-> missed]

\* `if now >= state.cooldown_until and self._is_too_far(...)` and its body,
\* on what px_resolved left
px_breached(trainer_id, proximity_value, resolved) ==
    LET config == latest_settings[trainer_id]
        st2 == resolved.state
        checked == px_checks_breach(st2)
        looked == is_too_far(proximity_value, st2, config)
        far == checked /\ looked.far
    IN [state |-> IF ~checked
                  THEN [st2 EXCEPT
                           !.near_seen =
                               \/ st2.near_seen
                               \/ /\ st2.breach
                                  /\ proximity_value >= PxThreshold]
                  ELSE IF far
                  THEN [looked.state EXCEPT
                           !.cooldown_until =
                               now * 10 + px_cooldown_seconds(config),
                           !.breach = FALSE, !.breach_started_at = 0,
                           !.near_seen = FALSE]
                  ELSE looked.state,
        rearmed |-> resolved.rearmed, success |-> resolved.success,
        missed |-> resolved.missed, far |-> far,
        stale |-> far /\ st2.near_seen]

\* the end of the loop body, _log_sample included: the state it leaves, the
\* shocks asked for and the stats sent
px_finished(trainer_id, summoned, proximity_value, breached) ==
    LET config == latest_settings[trainer_id]
        st3 == breached.state
    IN [state |-> IF px_sampled(st3)
                  THEN [st3 EXCEPT !.last_sample_log = now]
                  ELSE st3,
        fired |-> (IF breached.missed
                   THEN <<px_correction(trainer_id, config,
                              "summon command missed", proximity_value)>>
                   ELSE <<>>)
                  \o (IF breached.far
                      THEN <<px_correction(trainer_id, config,
                                 "too far from trainer", proximity_value)>>
                      ELSE <<>>),
        stats |-> (IF summoned THEN <<"command_start">> ELSE <<>>)
                  \o (IF breached.success THEN <<"command_success">>
                      ELSE <<>>)
                  \o (IF breached.missed THEN <<"shock">> ELSE <<>>)
                  \o (IF breached.far THEN <<"shock">> ELSE <<>>)
                  \o (IF px_sampled(st3) THEN <<"sample">> ELSE <<>>),
        success |-> breached.success,
        rearmed |-> breached.rearmed,
        stale |-> breached.stale]

\* one pass of the loop body of _worker_loop for trainer_id, statement by
\* statement
px_step(trainer_id, summoned, proximity_value) ==
    CHOOSE out \in
        {px_finished(trainer_id, summoned, proximity_value, b) :
            b \in {px_breached(trainer_id, proximity_value, r) :
                r \in {px_resolved(trainer_id, proximity_value, a) :
                    a \in {px_armed(trainer_id, summoned)}}}} : TRUE

\* the send_shock calls of the loop over active_configs.items(), in the order
\* of iteration, from position i on
RECURSIVE px_fired(_, _, _, _)
px_fired(order, i, summons, proximity_value) ==
    IF i > Len(order) THEN <<>>
    ELSE px_step(order[i], order[i] \in summons, proximity_value).fired
             \o px_fired(order, i + 1, summons, proximity_value)

\* the stats sent by the loop, in the order of iteration
RECURSIVE px_stats(_, _, _, _)
px_stats(order, i, summons, proximity_value) ==
    IF i > Len(order) THEN <<>>
    ELSE px_step(order[i], order[i] \in summons, proximity_value).stats
             \o px_stats(order, i + 1, summons, proximity_value)

\* one iteration of ProximityFeature._worker_loop: summons holds the senders
\* of the summon events polled, proximity_value is what the parameter store
\* returned
proximity_tick(order, summons, proximity_value) ==
    /\ feat = "proximity"
    /\ UNCHANGED <<now, latest_settings, feat, last_shock, pull_last, stable>>
    /\ order \in Orders(ActiveTrainerConfigs("feature_proximity"))
    /\ px_state' =
           [t \in Trainers |->
               IF t \in ActiveTrainerConfigs("feature_proximity")
               THEN px_step(t, t \in summons, proximity_value).state
               ELSE Pruned(px_state, ActiveTrainerConfigs("feature_proximity"),
                           NoProximity)[t]]
    /\ tick' = [NoTick EXCEPT
                  !.feat = feat,
                  !.fired = px_fired(order, 1, summons, proximity_value),
                  !.stats = px_stats(order, 1, summons, proximity_value),
                  !.done = {t \in ActiveTrainerConfigs("feature_proximity") :
                               px_step(t, t \in summons,
                                       proximity_value).success},
                  !.stale = {t \in ActiveTrainerConfigs("feature_proximity") :
                                px_step(t, t \in summons,
                                        proximity_value).stale},
                  !.summons = summons,
                  !.rearmed = {t \in ActiveTrainerConfigs("feature_proximity") :
                                  px_step(t, t \in summons,
                                          proximity_value).rearmed},
                  !.proximity = proximity_value]
    /\ UNCHANGED <<wvars, notPx>>
    /\ UNCHANGED notPet

\* the trainer whose summons are observed
Summoners == {"B"}

ProximityTick ==
    \E o \in AllOrders, s \in SUBSET Summoners, p \in PxReadings :
        proximity_tick(o, s, p)

ProximityNext ==
    \/ AdvanceTime
    \/ \E t \in Trainers : \E c \in ProximityConfigs[t] : SetConfig(t, c)
    \/ ProximityTick

\* Proximity with the summoning trainer alone in the session
SummonNext ==
    \/ AdvanceTime
    \/ \E t \in Summoners : \E c \in ProximityConfigs[t] : SetConfig(t, c)
    \/ ProximityTick

(***************************************************************************)
(* Feature lifecycle: start, stop and the worker thread                    *)
(* (ScoldingFeature in logic/pet/scolding.py; Feature._start_worker and    *)
(* Feature._stop_worker in logic/feature.py, used by DepthFeature)         *)
(***************************************************************************)
MaxSpawns == 2

Workers == 1..MaxSpawns

NoOp == [op |-> "none", was_running |-> FALSE, flip |-> FALSE]

\* the record of a call of `op`
Called(op) == [op |-> op, was_running |-> lc_running, flip |-> ~lc_op.flip]

\* the next thread object, or 0 when MaxSpawns threads were created
NextWorker ==
    IF \E w \in Workers : lc_workers[w] = "unborn"
    THEN CHOOSE w \in Workers :
             /\ lc_workers[w] = "unborn"
             /\ \A v \in Workers : lc_workers[v] = "unborn" => w <= v
    ELSE 0

\* start() without its guard
already_running_Never == FALSE

\* `if self._running: return` in start() and _start_worker()
already_running == lc_running

\* self._running = True; self._stop_event.clear(); a new thread is created,
\* kept in self._thread and started
SpawnWorker ==
    /\ NextWorker # 0
    /\ lc_running' = TRUE
    /\ lc_stop_event' = FALSE
    /\ lc_thread' = NextWorker
    /\ lc_workers' = [lc_workers EXCEPT ![NextWorker] = "alive"]

\* self._running = False; self._stop_event.set(); join(timeout=1.0), after
\* which the thread may still be alive; self._thread = None
SignalStop ==
    /\ lc_running' = FALSE
    /\ lc_stop_event' = TRUE
    /\ lc_thread' = 0
    /\ UNCHANGED lc_workers

\* ScoldingFeature.start
start ==
    /\ feat = "scolding"
    /\ lc_op' = Called("start")
    /\ IF already_running
       THEN UNCHANGED <<lc_running, lc_stop_event, lc_thread, lc_workers>>
       ELSE SpawnWorker
    /\ UNCHANGED <<sd_state, dp_cooldown_until>>
    /\ UNCHANGED <<wvars, evars, notLc>>
    /\ UNCHANGED notPet

\* ScoldingFeature.stop
stop ==
    /\ feat = "scolding"
    /\ lc_op' = Called("stop")
    /\ IF ~lc_running
       THEN UNCHANGED <<lc_running, lc_stop_event, lc_thread, lc_workers>>
       ELSE SignalStop
    /\ UNCHANGED <<sd_state, dp_cooldown_until>>
    /\ UNCHANGED <<wvars, evars, notLc>>
    /\ UNCHANGED notPet

\* Feature._start_worker, called by DepthFeature.start with a transcript
\* store present
start_worker ==
    /\ feat = "depth"
    /\ lc_op' = Called("start")
    /\ IF already_running
       THEN /\ UNCHANGED <<lc_running, lc_stop_event, lc_thread, lc_workers>>
            /\ UNCHANGED wvars
       ELSE /\ SpawnWorker
            /\ SetStore(reset_tag_on(StoreState, DepthTag))
            /\ UNCHANGED <<transcript, w_call>>
    /\ UNCHANGED <<sd_state, dp_cooldown_until>>
    /\ UNCHANGED <<evars, notLc>>
    /\ UNCHANGED notPet

\* Feature._stop_worker, called by DepthFeature.stop
stop_worker ==
    /\ feat = "depth"
    /\ lc_op' = Called("stop")
    /\ IF ~lc_running
       THEN UNCHANGED <<lc_running, lc_stop_event, lc_thread, lc_workers>>
       ELSE SignalStop
    /\ UNCHANGED <<sd_state, dp_cooldown_until>>
    /\ UNCHANGED <<wvars, evars, notLc>>
    /\ UNCHANGED notPet

\* worker w finds the stop event set, at the head of its loop or in
\* self._stop_event.wait, and returns
worker_exit(w) ==
    /\ feat \in {"scolding", "depth"}
    /\ lc_workers[w] = "alive"
    /\ lc_stop_event
    /\ lc_workers' = [lc_workers EXCEPT ![w] = "exited"]
    /\ UNCHANGED <<lc_running, lc_stop_event, lc_thread, lc_op, sd_state,
                   dp_cooldown_until>>
    /\ UNCHANGED <<wvars, evars, notLc>>
    /\ UNCHANGED notPet

SdBaseCooldown == 3

SdBaseStrength == 30

\* 0.5 s, in tenths of a second
SdBaseDuration == 5

\* ScoldingFeature._cooldown_seconds
sd_cooldown_seconds(config) ==
    Max2(0, ScaledValue(SdBaseCooldown, config, "cooldown_scale"))

\* ScoldingFeature._shock_params
sd_shock_params(config) ==
    [strength |-> Max2(0, ScaledValue(SdBaseStrength, config, "strength_scale")),
     duration |-> Max2(0, ScaledValue(SdBaseDuration, config, "duration_scale"))]

\* the call that raises during a tick, if it is made
Faults == {"none", "config_snapshot", "event_poll", "actuator"}

\* the calls of ScoldingFeature._worker_loop made inside a try block:
\* send_shock in _deliver_scolding_shock, and neither
\* latest_settings_by_trainer() nor poll_feature_events()
sd_guarded(fault) == fault = "actuator"

\* the loop over active_configs.items() from position i of `order` on;
\* `fired` lists the calls made to the actuator
RECURSIVE sd_loop(_, _, _, _)
sd_loop(order, i, state, events) ==
    IF i > Len(order) THEN [state |-> state, fired |-> <<>>]
    ELSE LET trainer_id == order[i]
             config == latest_settings[trainer_id]
             st == IF state[trainer_id] = NoState THEN 0 ELSE state[trainer_id]
             shock == events[trainer_id] /\ now >= st
             st1 == IF shock THEN now + sd_cooldown_seconds(config) ELSE st
             rest == sd_loop(order, i + 1,
                             [state EXCEPT ![trainer_id] = st1], events)
         IN [state |-> rest.state,
             fired |-> (IF shock
                        THEN <<ShockRequest(trainer_id,
                                   sd_shock_params(config).strength,
                                   sd_shock_params(config).duration)>>
                        ELSE <<>>) \o rest.fired]

\* one iteration of ScoldingFeature._worker_loop in worker w: events[t] says
\* whether the poll returned scold events from t, `fault` is the call that
\* raises.  An exception outside a try block ends the thread.
scolding_tick(w, order, events, fault) ==
    /\ feat = "scolding"
    /\ lc_workers[w] = "alive"
    /\ ~lc_stop_event
    /\ LET active_configs == ActiveTrainerConfigs("feature_scolding")
           pruned == Pruned(sd_state, active_configs, NoState)
           r == sd_loop(order, 1, pruned, events)
       IN /\ order \in Orders(active_configs)
          /\ IF fault = "config_snapshot" /\ ~sd_guarded(fault)
             THEN /\ lc_workers' = [lc_workers EXCEPT ![w] = "crashed"]
                  /\ tick' = [NoTick EXCEPT !.feat = feat]
                  /\ UNCHANGED <<sd_state, last_shock>>
             ELSE IF active_configs = {}
             THEN /\ sd_state' = pruned
                  /\ tick' = [NoTick EXCEPT !.feat = feat]
                  /\ last_shock' = ShocksAfter(active_configs, <<>>)
                  /\ UNCHANGED lc_workers
             ELSE IF fault = "event_poll" /\ ~sd_guarded(fault)
             THEN /\ lc_workers' = [lc_workers EXCEPT ![w] = "crashed"]
                  /\ sd_state' = pruned
                  /\ tick' = [NoTick EXCEPT !.feat = feat]
                  /\ last_shock' = ShocksAfter(active_configs, <<>>)
             ELSE /\ sd_state' = r.state
                  /\ tick' = [NoTick EXCEPT !.feat = feat, !.fired = r.fired]
                  /\ last_shock' = ShocksAfter(active_configs, r.fired)
                  /\ UNCHANGED lc_workers
    /\ UNCHANGED <<lc_running, lc_stop_event, lc_thread, lc_op,
                   dp_cooldown_until>>
    /\ UNCHANGED <<now, latest_settings, feat, pull_last, stable>>
    /\ UNCHANGED <<wvars, notLc>>
    /\ UNCHANGED notPet

\* the attributes a DepthFeature object has after Feature.__init__ and
\* DepthFeature.__init__ that the worker reads, with their values: the
\* threshold in 1/OscOne, strengths in whole units
DepthAttributes ==
    [name \in {"_depth_threshold", "_shock_strength_min",
               "_shock_strength_max", "_base_cooldown_seconds"} |->
        CASE name = "_depth_threshold" -> OscOne \div 2
          [] name = "_shock_strength_min" -> 20
          [] name = "_shock_strength_max" -> 40
          [] name = "_base_cooldown_seconds" -> 2]

\* self.<name>: the value, or AttributeError
depth_getattr(name) ==
    IF name \in DOMAIN DepthAttributes
    THEN [raised |-> FALSE, v |-> DepthAttributes[name]]
    ELSE [raised |-> TRUE, v |-> 0]

\* self._targets = ("Trainer/PenDepth") is a str: the loop `for base in
\* self._targets` walks its characters
DepthTargets ==
    <<"T", "r", "a", "i", "n", "e", "r", "/", "P", "e", "n", "D", "e", "p",
      "t", "h">>

\* the settings of a trainer whose "Depth" box is ticked (key feature_depth)
CfgDepthKey == [CfgOff EXCEPT !.flags = {"feature_depth"}]

\* settings that carry the key "depth"
CfgDepthName == [CfgOff EXCEPT !.flags = {"depth"}]

\* the settings pushed while Depth is observed
DepthConfigs ==
    [t \in Trainers |->
        IF t = "A" THEN {NoConfig, CfgDepthKey}
        ELSE {NoConfig, CfgDepthKey, CfgDepthName}]

\* the values of the parameter Trainer/PenDepth: none, 0.25, 0.5, 0.75, 1.0
DepthReadings ==
    {Absent, OscNum(OscOne \div 4), OscNum(OscOne \div 2),
     OscNum((3 * OscOne) \div 4), OscNum(OscOne)}

\* self.osc.get_bool_param(base) as a number (True is 1.0), Trainer/PenDepth
\* being the only parameter of the store that has a value
depth_read(base, pen_depth) ==
    LET raw == IF base = "Trainer/PenDepth" /\ pen_depth # Absent
               THEN pen_depth ELSE OscNone
    IN IF bool_of_raw(raw, OscNone) THEN OscOne ELSE 0

\* DepthFeature._deliver_correction: the strength asked of the actuator
depth_strength(depth) ==
    LET scale_times_max ==
            ((depth - DepthAttributes["_depth_threshold"])
                 * DepthAttributes["_shock_strength_max"])
                \div (OscOne - DepthAttributes["_depth_threshold"])
    IN Max2(DepthAttributes["_shock_strength_min"],
            Min2(DepthAttributes["_shock_strength_max"], scale_times_max))

\* DepthFeature._check_and_maybe_shock from target i on
RECURSIVE depth_check_and_maybe_shock(_, _)
depth_check_and_maybe_shock(pen_depth, i) ==
    IF i > Len(DepthTargets)
    THEN [raised |-> FALSE, sent |-> FALSE, fired |-> <<>>]
    ELSE LET depth == depth_read(DepthTargets[i], pen_depth)
             threshold == depth_getattr("_stretch_threshold")
         IN IF threshold.raised
            THEN [raised |-> TRUE, sent |-> FALSE, fired |-> <<>>]
            ELSE IF depth >= threshold.v
            THEN [raised |-> FALSE, sent |-> TRUE,
                  fired |-> <<ShockRequest("none", depth_strength(depth),
                                           5)>>]
            ELSE depth_check_and_maybe_shock(pen_depth, i + 1)

\* one iteration of DepthFeature._worker_loop in worker w, Trainer/PenDepth
\* holding pen_depth: with no trainer whose settings carry the key "depth"
\* it only waits; an AttributeError ends the thread
depth_tick(w, pen_depth) ==
    /\ feat = "depth"
    /\ lc_workers[w] = "alive"
    /\ ~lc_stop_event
    /\ LET r == depth_check_and_maybe_shock(pen_depth, 1)
           cooldown_seconds == depth_getattr("_cooldown_seconds")
       IN IF ActiveTrainerConfigs(DepthTag) = {} \/ now < dp_cooldown_until
          THEN /\ tick' = [NoTick EXCEPT !.feat = feat,
                                         !.readings = <<pen_depth>>]
               /\ UNCHANGED <<lc_workers, dp_cooldown_until>>
          ELSE /\ tick' = [NoTick EXCEPT !.feat = feat,
                                         !.readings = <<pen_depth>>,
                                         !.fired = r.fired]
               /\ lc_workers' =
                      IF r.raised \/ (r.sent /\ cooldown_seconds.raised)
                      THEN [lc_workers EXCEPT ![w] = "crashed"]
                      ELSE lc_workers
               /\ dp_cooldown_until' =
                      IF r.sent /\ ~cooldown_seconds.raised
                      THEN now + cooldown_seconds.v
                      ELSE dp_cooldown_until
    /\ UNCHANGED <<lc_running, lc_stop_event, lc_thread, lc_op, sd_state>>
    /\ UNCHANGED <<now, latest_settings, feat, last_shock, pull_last, stable>>
    /\ UNCHANGED <<wvars, notLc>>
    /\ UNCHANGED notPet

LcInit ==
    /\ lc_running = FALSE
    /\ lc_stop_event = FALSE
    /\ lc_thread = 0
    /\ lc_workers = [w \in Workers |-> "unborn"]
    /\ lc_op = NoOp
    /\ sd_state = [t \in Trainers |-> NoState]
    /\ dp_cooldown_until = 0

LifecycleNext ==
    \/ start
    \/ stop
    \/ start_worker
    \/ stop_worker
    \/ \E w \in Workers : worker_exit(w)
    \/ \E w \in Workers, o \in AllOrders, e \in [Trainers -> BOOLEAN],
          f \in Faults : scolding_tick(w, o, e, f)
    \/ \E w \in Workers, d \in DepthReadings : depth_tick(w, d)
    \/ AdvanceTime
    \/ \E c \in FewConfigs["A"] : SetConfig("A", c)

(***************************************************************************)
(* The polling loop of a feature worker and stop() (logic/pet/tricks.py)   *)
(*                                                                         *)
(* The loop is followed position by position: "test" is the loop's         *)
(* condition, "tick" the evaluation of the trainers (tricks_tick),         *)
(* "sleep" the time.sleep(0.2) between the two pulses of                   *)
(* _deliver_completion_signal, "wait" self._stop_event.wait.               *)
(***************************************************************************)
LoopPositions == {"test", "tick", "sleep", "wait"}

NotAsked == [asked |-> FALSE, waited |-> FALSE, released |-> FALSE]

NobodyStarting == [checked |-> {}, raced |-> {}]

TlInit ==
    /\ tl_pc = [w \in Workers |-> "unborn"]
    /\ tl_stop = [w \in Workers |-> NotAsked]
    /\ tl_start = NobodyStarting

\* the next thread object, or 0 when MaxSpawns threads were created
tl_next ==
    IF \E w \in Workers : tl_pc[w] = "unborn"
    THEN CHOOSE w \in Workers :
             /\ tl_pc[w] = "unborn"
             /\ \A v \in Workers : tl_pc[v] = "unborn" => w <= v
    ELSE 0

\* threading.Event.is_set
is_set == lc_stop_event

\* threading.Event.wait(timeout): True at once when the event is set, False
\* after the timeout otherwise
wait_result == is_set

\* TricksFeature.start
tricks_start ==
    /\ feat = "shutdown"
    /\ lc_op' = Called("start")
    /\ IF lc_running
       THEN UNCHANGED <<lc_running, lc_stop_event, lc_thread, tl_pc, tl_stop>>
       ELSE /\ tl_next # 0
            /\ lc_running' = TRUE
            /\ lc_stop_event' = FALSE
            /\ lc_thread' = tl_next
            /\ tl_pc' = [tl_pc EXCEPT ![tl_next] = "test"]
            /\ tl_stop' = [w \in Workers |->
                              IF tl_pc[w] \in LoopPositions /\ tl_stop[w].asked
                              THEN [tl_stop[w] EXCEPT !.released = TRUE]
                              ELSE tl_stop[w]]
    /\ UNCHANGED <<lc_workers, sd_state, dp_cooldown_until, tl_start>>
    /\ UNCHANGED <<wvars, evars, notTl>>
    /\ UNCHANGED notPet

\* the threads that call start() at the same time
Callers == {1, 2}

\* start() in caller c up to `if self._running: return`, which it passes
start_test(c) ==
    /\ feat = "shutdown"
    /\ c \notin tl_start.checked
    /\ ~lc_running
    /\ tl_start' = [tl_start EXCEPT !.checked = @ \cup {c}]
    /\ UNCHANGED <<tl_pc, tl_stop>>
    /\ UNCHANGED lcvars
    /\ UNCHANGED <<wvars, evars, notTl>>
    /\ UNCHANGED notPet

\* the rest of start() in caller c: self._running = True, the event cleared,
\* a thread created, kept in self._thread and started
start_thread(c) ==
    /\ feat = "shutdown"
    /\ c \in tl_start.checked
    /\ tl_next # 0
    /\ lc_op' = Called("start")
    /\ lc_running' = TRUE
    /\ lc_stop_event' = FALSE
    /\ lc_thread' = tl_next
    /\ tl_pc' = [tl_pc EXCEPT ![tl_next] = "test"]
    /\ tl_stop' = [w \in Workers |->
                      IF tl_pc[w] \in LoopPositions /\ tl_stop[w].asked
                      THEN [tl_stop[w] EXCEPT !.released = TRUE]
                      ELSE tl_stop[w]]
    /\ tl_start' = [checked |-> tl_start.checked \ {c},
                    raced |-> IF lc_running
                              THEN tl_start.raced \cup {tl_next}
                              ELSE tl_start.raced]
    /\ UNCHANGED <<lc_workers, sd_state, dp_cooldown_until>>
    /\ UNCHANGED <<wvars, evars, notTl>>
    /\ UNCHANGED notPet

\* TricksFeature.stop: the join is bounded by 1.0 s, so the thread may still
\* be alive when stop() returns
tricks_stop ==
    /\ feat = "shutdown"
    /\ lc_op' = Called("stop")
    /\ IF ~lc_running
       THEN UNCHANGED <<lc_running, lc_stop_event, lc_thread, tl_stop>>
       ELSE /\ lc_running' = FALSE
            /\ lc_stop_event' = TRUE
            /\ lc_thread' = 0
            /\ tl_stop' = [w \in Workers |->
                              IF tl_pc[w] \in LoopPositions
                              THEN [asked |-> TRUE, waited |-> tl_pc[w] = "wait",
                                    released |-> FALSE]
                              ELSE tl_stop[w]]
    /\ UNCHANGED <<lc_workers, sd_state, dp_cooldown_until, tl_pc, tl_start>>
    /\ UNCHANGED <<wvars, evars, notTl>>
    /\ UNCHANGED notPet

\* worker w moves to position pos
tl_goto(w, pos) ==
    /\ tl_pc' = [tl_pc EXCEPT ![w] = pos]
    /\ tl_stop' = IF pos = "wait" /\ tl_stop[w].asked
                  THEN [tl_stop EXCEPT ![w].waited = TRUE]
                  ELSE tl_stop
    /\ UNCHANGED <<lc_running, lc_stop_event, lc_thread, lc_workers, lc_op,
                   sd_state, dp_cooldown_until, tl_start>>
    /\ UNCHANGED <<wvars, evars, notTl>>
    /\ UNCHANGED notPet

\* while not self._stop_event.is_set()
loop_test(w) ==
    /\ feat = "shutdown"
    /\ tl_pc[w] = "test"
    /\ tl_goto(w, IF is_set THEN "exited" ELSE "tick")

\* the body of the loop up to its wait: with `completed` a pending command is
\* found completed and _deliver_completion_signal sleeps between its pulses
loop_tick(w, completed) ==
    /\ feat = "shutdown"
    /\ tl_pc[w] = "tick"
    /\ tl_goto(w, IF completed THEN "sleep" ELSE "wait")

\* time.sleep(0.2) returns
completion_sleep(w) ==
    /\ feat = "shutdown"
    /\ tl_pc[w] = "sleep"
    /\ tl_goto(w, "wait")

\* if self._stop_event.wait(self._poll_interval): break
loop_wait(w) ==
    /\ feat = "shutdown"
    /\ tl_pc[w] = "wait"
    /\ tl_goto(w, IF wait_result THEN "exited" ELSE "test")

\* a step of worker thread w
WorkerStep(w) ==
    \/ loop_test(w)
    \/ \E completed \in BOOLEAN : loop_tick(w, completed)
    \/ completion_sleep(w)
    \/ loop_wait(w)

\* start() and stop() called from one thread or from two, and the workers
RestartNext ==
    \/ \E c \in Callers : start_test(c)
    \/ \E c \in Callers : start_thread(c)
    \/ tricks_stop
    \/ \E w \in Workers : loop_test(w)
    \/ \E w \in Workers, completed \in BOOLEAN : loop_tick(w, completed)
    \/ \E w \in Workers : completion_sleep(w)
    \/ \E w \in Workers : loop_wait(w)

ShutdownNext ==
    \/ tricks_start
    \/ tricks_stop
    \/ \E w \in Workers : loop_test(w)
    \/ \E w \in Workers, completed \in BOOLEAN : loop_tick(w, completed)
    \/ \E w \in Workers : completion_sleep(w)
    \/ \E w \in Workers : loop_wait(w)

(***************************************************************************)
(* Feedback actuator (interfaces/pishock.py)                               *)
(*                                                                         *)
(* Strengths and durations are floats in tenths: Num(1600) is 160.0.       *)
(***************************************************************************)
Roles == {"trainer", "pet"}

\* every feature enabled, strength_scale at the top of its range
CfgStrong ==
    [CfgPlain EXCEPT !.scales = [DefaultScales EXCEPT
                                    !["strength_scale"] = Num(20)]]

\* the strengths FocusFeature._deliver_correction computes for an empty and
\* for a half-empty meter
FeatureStrengths ==
    {Num(10 * fc_strength(meter, config)) :
        meter \in {0, FcShockThreshold \div 2},
        config \in {CfgPlain, CfgStrong}}

\* the strengths handed to the actuator
ActuatorStrengths ==
    FeatureStrengths
        \cup {Num(200), Num(445), Num(455), Num(-45), Num(1004), Num(100000),
              NaN, PosInf, PyNone}

\* 0.5 s and 0.2 s as the features pass them, and a negative duration
ActuatorDurations == {Num(5), Num(2), Num(-2)}

NoHw ==
    [op |-> "none", strength |-> Num(0), ready |-> FALSE, reached |-> FALSE,
     hw_strength |-> 0, hw_duration |-> 0, raised |-> FALSE]

\* PiShockInterface.__init__ with role `role`
PsInit(role) ==
    /\ ps_role = role
    /\ ps_connected = FALSE
    /\ ps_shocker = FALSE
    /\ ps_call = NoHw

PsIdle == PsInit("pet")

\* self._enabled
ps_enabled == ps_role = "pet"

\* round(x) of a float given in tenths: to the nearest integer, a tie to the
\* even one
py_round(tenths) ==
    LET q == tenths \div 10
        r == tenths % 10
    IN IF r < 5 THEN q
       ELSE IF r > 5 THEN q + 1
       ELSE IF q % 2 = 0 THEN q ELSE q + 1

\* int(round(float(strength))): the integer, or raised = TRUE (TypeError for
\* a non-number, ValueError for NaN, OverflowError for an infinity)
int_round_float(strength) ==
    LET fl == PyFloat(strength)
    IN IF fl.raised \/ fl.f.k # "num" THEN [raised |-> TRUE, n |-> 0]
       ELSE [raised |-> FALSE, n |-> py_round(fl.f.v)]

\* the clamp of send_shock without its upper bound
clamp_strength_NoUpper(n) == Max2(0, n)

\* max(0, min(100, safe_strength))
clamp_strength(n) == Max2(0, Min2(100, n))

\* max(0.0, float(duration)), in tenths, for a finite duration
safe_duration(duration) == PyMax(Num(0), PyFloat(duration).f).v

\* PiShockInterface.start: `credentials` says whether username, api_key and
\* share_code are set, `verified` what verify_credentials() answers, `hw_ok`
\* whether the vibration that greets the wearer succeeds
ps_start(credentials, verified, hw_ok) ==
    /\ feat = "actuator"
    /\ IF ~ps_enabled \/ ~credentials \/ ~verified
       THEN /\ ps_connected' = FALSE
            /\ ps_shocker' = FALSE
            /\ ps_call' = [NoHw EXCEPT !.op = "start"]
       ELSE /\ ps_connected' = TRUE
            /\ ps_shocker' = TRUE
            /\ ps_call' = [NoHw EXCEPT !.op = "start", !.ready = TRUE,
                                       !.reached = TRUE, !.hw_strength = 1000,
                                       !.hw_duration = 10, !.raised = ~hw_ok]
    /\ UNCHANGED ps_role
    /\ UNCHANGED <<wvars, evars, notPs>>
    /\ UNCHANGED notPet

\* PiShockInterface.stop
ps_stop ==
    /\ feat = "actuator"
    /\ ps_connected' = FALSE
    /\ ps_shocker' = FALSE
    /\ ps_call' = [NoHw EXCEPT !.op = "stop"]
    /\ UNCHANGED ps_role
    /\ UNCHANGED <<wvars, evars, notPs>>
    /\ UNCHANGED notPet

\* the actuator drives the hardware: pet role, connected, a shocker at hand
ps_ready == ps_enabled /\ ps_connected /\ ps_shocker

\* PiShockInterface.send_shock; hw_ok says whether shocker.shock succeeds
send_shock(strength, duration, hw_ok) ==
    /\ feat = "actuator"
    /\ LET safe_strength == int_round_float(strength)
           called == [NoHw EXCEPT !.op = "send_shock", !.strength = strength,
                                  !.ready = ps_ready]
       IN ps_call' =
              IF ~ps_enabled THEN called
              ELSE IF safe_strength.raised
              THEN [called EXCEPT !.raised = TRUE]
              ELSE IF ~ps_connected \/ ~ps_shocker THEN called
              ELSE [called EXCEPT
                       !.reached = TRUE,
                       !.hw_strength = 10 * clamp_strength(safe_strength.n),
                       !.hw_duration = safe_duration(duration)]
    /\ UNCHANGED <<ps_role, ps_connected, ps_shocker>>
    /\ UNCHANGED <<wvars, evars, notPs>>
    /\ UNCHANGED notPet

\* PiShockInterface.send_vibrate; hw_ok says whether shocker.vibrate
\* succeeds.  _send_shock_osc converts the strength with float() outside its
\* try block; the call to the shocker is in no try block and gets the
\* caller's values as they are.
send_vibrate(strength, duration, hw_ok) ==
    /\ feat = "actuator"
    /\ LET called == [NoHw EXCEPT !.op = "send_vibrate", !.strength = strength,
                                  !.ready = ps_ready]
       IN ps_call' =
              IF ~ps_enabled THEN called
              ELSE IF PyFloat(strength).raised
              THEN [called EXCEPT !.raised = TRUE]
              ELSE IF ~ps_connected \/ ~ps_shocker THEN called
              ELSE [called EXCEPT
                       !.reached = TRUE,
                       !.hw_strength = strength.v,
                       !.hw_duration = duration.v,
                       !.raised = ~hw_ok]
    /\ UNCHANGED <<ps_role, ps_connected, ps_shocker>>
    /\ UNCHANGED <<wvars, evars, notPs>>
    /\ UNCHANGED notPet

ActuatorNext ==
    \/ \E credentials, verified, hw_ok \in BOOLEAN :
           ps_start(credentials, verified, hw_ok)
    \/ ps_stop
    \/ \E strength \in ActuatorStrengths, duration \in ActuatorDurations,
          hw_ok \in BOOLEAN : send_shock(strength, duration, hw_ok)
    \/ \E strength \in ActuatorStrengths, duration \in ActuatorDurations,
          hw_ok \in BOOLEAN : send_vibrate(strength, duration, hw_ok)

PetIdle ==
    /\ EInit
    /\ feat = "none"
    /\ FwInit
    /\ WgInit
    /\ PlInit
    /\ FcInit
    /\ TkInit
    /\ PxInit
    /\ LcInit
    /\ ChInit
    /\ TlInit
    /\ PsIdle

\* the speech worker appends a chunk while the forbidden-words feature runs
Speak(text) ==
    /\ feat = "forbidden"
    /\ Len(transcript) < MaxSpeech
    /\ AppendChunk(text)

ForbiddenNext ==
    \/ AdvanceTime
    \/ \E t \in Trainers : \E c \in TrainerConfigs[t] : SetConfig(t, c)
    \/ \E text \in ChunkTexts : Speak(text)
    \/ \E o \in AllOrders : forbidden_tick(o)

PullNext ==
    \/ AdvanceTime
    \/ \E t \in Trainers : \E c \in TrainerConfigs[t] : SetConfig(t, c)
    \/ \E r \in PullReadingTuples : pull_tick(r)

FocusNext ==
    \/ AdvanceTime
    \/ \E t \in Trainers : \E c \in TrainerConfigs[t] : SetConfig(t, c)
    \/ \E o \in AllOrders, p \in FocusPenalties, f \in FocusReadings :
           focus_tick(o, p, f)

(***************************************************************************)
(* Configuration snapshots of the session channel: the objects behind     *)
(* RemoteServerInterface._latest_settings and the copies handed out       *)
(***************************************************************************)
\* the dict and list objects that can be allocated
MaxObjects == 4

\* the longest list of names
MaxNames == 2

ObjectIds == 1..MaxObjects

\* no object: a key that is absent, a caller that holds no snapshot
NoObject == 0

\* a scalar setting such as feature_focus ("absent": the key is missing)
FlagValues == {"absent", "on", "off"}

NameWords == {"a", "b"}

\* the accessor a caller got its snapshot from
Accessors == {"latest_settings", "get_session_details"}

\* the config payloads that arrive: flag and names, {} for a message without
\* payload
SnPayloads ==
    {[flag |-> "on", names |-> <<"a">>, has_names |-> TRUE],
     [flag |-> "off", names |-> <<>>, has_names |-> TRUE],
     [flag |-> "absent", names |-> <<>>, has_names |-> FALSE]}

FreeDict == [alloc |-> FALSE, flag |-> "absent", names |-> NoObject]

EmptyDict == [alloc |-> TRUE, flag |-> "absent", names |-> NoObject]

SnInit ==
    /\ sn_dicts = [i \in ObjectIds |-> IF i = 1 THEN EmptyDict ELSE FreeDict]
    /\ sn_lists = [i \in ObjectIds |-> <<>>]
    /\ sn_list_count = 0
    /\ sn_stored = 1
    /\ sn_held = [a \in Accessors |-> NoObject]

SnIdle == SnInit

\* a new dict object
fresh_dict == CHOOSE i \in ObjectIds :
    /\ ~sn_dicts[i].alloc
    /\ \A j \in ObjectIds : j < i => sn_dicts[j].alloc

has_free_dict == \E i \in ObjectIds : ~sn_dicts[i].alloc

\* dict(mapping): a new dict object with the same keys, each value the same
\* object as in the mapping
dict_copy(d) == fresh_dict

\* the mapping an object id stands for, nested list included
DeepValue(d) ==
    [flag |-> sn_dicts[d].flag,
     has_names |-> sn_dicts[d].names # NoObject,
     names |-> IF sn_dicts[d].names = NoObject THEN <<>>
               ELSE sn_lists[sn_dicts[d].names]]

\* _on_message for a config message: json.loads builds new objects and
\* self._latest_settings is bound to the new payload
on_config_message(payload) ==
    /\ has_free_dict
    /\ sn_list_count < MaxObjects
    /\ LET d == fresh_dict
           l == IF payload.has_names THEN sn_list_count + 1 ELSE NoObject
       IN /\ sn_dicts' = [sn_dicts EXCEPT ![d] =
                  [alloc |-> TRUE, flag |-> payload.flag, names |-> l]]
          /\ sn_lists' = IF payload.has_names
                         THEN [sn_lists EXCEPT ![l] = payload.names]
                         ELSE sn_lists
          /\ sn_list_count' = IF payload.has_names THEN l ELSE sn_list_count
          /\ sn_stored' = d
    /\ UNCHANGED sn_held
    /\ UNCHANGED notSn

\* the latest_settings property, and the "latest_settings" entry of
\* get_session_details: dict(self._latest_settings)
read_settings(accessor) ==
    /\ has_free_dict
    /\ LET d == dict_copy(sn_stored)
       IN /\ sn_dicts' = [sn_dicts EXCEPT ![d] = sn_dicts[sn_stored]]
          /\ sn_held' = [sn_held EXCEPT ![accessor] = d]
    /\ UNCHANGED <<sn_lists, sn_list_count, sn_stored>>
    /\ UNCHANGED notSn

\* the caller assigns a key of the snapshot it holds
snapshot_set_flag(accessor, value) ==
    /\ sn_held[accessor] # NoObject
    /\ sn_dicts[sn_held[accessor]].flag # value
    /\ sn_dicts' = [sn_dicts EXCEPT ![sn_held[accessor]].flag = value]
    /\ UNCHANGED <<sn_lists, sn_list_count, sn_stored, sn_held>>
    /\ UNCHANGED notSn

\* the caller appends to the list of names it reaches through its snapshot
snapshot_append_name(accessor, word) ==
    /\ sn_held[accessor] # NoObject
    /\ sn_dicts[sn_held[accessor]].names # NoObject
    /\ Len(sn_lists[sn_dicts[sn_held[accessor]].names]) < MaxNames
    /\ sn_lists' = [sn_lists EXCEPT ![sn_dicts[sn_held[accessor]].names] =
                        Append(@, word)]
    /\ UNCHANGED <<sn_dicts, sn_list_count, sn_stored, sn_held>>
    /\ UNCHANGED notSn

SnapshotNext ==
    \/ \E payload \in SnPayloads : on_config_message(payload)
    \/ \E accessor \in Accessors : read_settings(accessor)
    \/ \E accessor \in Accessors, value \in FlagValues \ {"absent"} :
           snapshot_set_flag(accessor, value)
    \/ \E accessor \in Accessors, word \in NameWords :
           snapshot_append_name(accessor, word)

(***************************************************************************)
(* The text normalisers of the features                                    *)
(***************************************************************************)
\* the longest text handed to a normaliser
MaxTextLen == 3

NormaliserTexts == UNION {[1..n -> Chars] : n \in 0..MaxTextLen}

Normalisers == {"feature", "forbidden", "tricks"}

\* Feature.normalise_text; the _normalise and _normalise_text of the trainer
\* features and of pet Focus repeat the same lines
normalise_text(text) ==
    IF text = <<>> THEN <<>>
    ELSE JoinTexts(SplitWords(
             [i \in 1..Len(text) |->
                 IF IsAlnum(Lower(text[i])) THEN Lower(text[i])
                 ELSE IF IsSpace(Lower(text[i])) THEN " "
                 ELSE " "], <<>>))

\* TricksFeature._normalise_text of logic/pet/tricks.py
pet_tricks_normalise_text(text) ==
    IF text = <<>> THEN <<>>
    ELSE JoinTexts(SplitWords(
             [i \in 1..Len(text) |->
                 IF IsAlnum(Lower(text[i])) THEN Lower(text[i])
                 ELSE IF Lower(text[i]) = "_" THEN "_"
                 ELSE IF IsSpace(Lower(text[i])) THEN " "
                 ELSE " "], <<>>))

NmInit ==
    /\ nm_text \in NormaliserTexts
    /\ nm_result = [n \in Normalisers |-> <<"?">>]
    /\ nm_called = {}

NmIdle ==
    /\ nm_text = <<>>
    /\ nm_result = [n \in Normalisers |-> <<"?">>]
    /\ nm_called = {}

\* one feature normalises the text
Normalise(n, result) ==
    /\ n \notin nm_called
    /\ nm_result' = [nm_result EXCEPT ![n] = result]
    /\ nm_called' = nm_called \cup {n}
    /\ UNCHANGED nm_text
    /\ UNCHANGED notNm

FeatureNormalises == Normalise("feature", normalise_text(nm_text))

ForbiddenNormalises == Normalise("forbidden", normalise(nm_text))

TricksNormalises == Normalise("tricks", pet_tricks_normalise_text(nm_text))

NormaliseNext ==
    \/ FeatureNormalises
    \/ ForbiddenNormalises
    \/ TricksNormalises

(***************************************************************************)
(* Start-up of the interfaces (WhisperInterface.start,                     *)
(* VRChatOSCInterface.start, PiShockInterface.start)                       *)
(***************************************************************************)
\* the chunks the speech worker transcribes while start-up is observed
MaxStartupChunks == 1

\* what start() of the speech interface finds: both libraries and a model
\* that loads, no sounddevice, no faster_whisper, a model that fails to load
WhisperDeps == {"ok", "no_sounddevice", "no_faster_whisper", "model_fails"}

\* what start() of the OSC interface finds: the library and a free port, no
\* pythonosc, a port that cannot be bound
OscDeps == {"ok", "no_pythonosc", "port_in_use"}

NoStart == [op |-> "none", dep |-> "none", was_running |-> FALSE,
            raised |-> FALSE]

CpInit(role) ==
    /\ wh_running = FALSE
    /\ wh_thread = FALSE
    /\ wh_call = NoStart
    /\ osc_enabled = (role = "pet")
    /\ osc_running = FALSE
    /\ osc_server = FALSE
    /\ osc_call = NoStart

CpIdle == CpInit("pet")

\* WhisperInterface.is_running
wh_is_running == wh_running

\* VRChatOSCInterface.is_running
osc_is_running == osc_enabled /\ osc_running

\* WhisperInterface.start
whisper_start(dep) ==
    /\ wh_call' = [op |-> "start", dep |-> dep, was_running |-> wh_running,
                   raised |-> ~wh_running /\ dep = "model_fails"]
    /\ IF wh_running THEN UNCHANGED <<wh_running, wh_thread>>
       ELSE IF dep \in {"no_sounddevice", "no_faster_whisper"}
       THEN wh_running' = TRUE /\ UNCHANGED wh_thread
       ELSE IF dep = "model_fails"
       THEN UNCHANGED <<wh_running, wh_thread>>
       ELSE wh_running' = TRUE /\ wh_thread' = TRUE
    /\ UNCHANGED <<osc_enabled, osc_running, osc_server, osc_call>>
    /\ UNCHANGED notCp

\* WhisperInterface.stop
whisper_stop ==
    /\ wh_call' = [NoStart EXCEPT !.op = "stop", !.was_running = wh_running]
    /\ IF ~wh_running THEN UNCHANGED <<wh_running, wh_thread>>
       ELSE wh_running' = FALSE /\ wh_thread' = FALSE
    /\ UNCHANGED <<osc_enabled, osc_running, osc_server, osc_call>>
    /\ UNCHANGED notCp

\* the speech worker, once started, transcribes a chunk
whisper_worker(text) ==
    /\ wh_thread
    /\ Len(transcript) < MaxStartupChunks
    /\ AppendChunk(text)

\* VRChatOSCInterface.start
osc_start(dep) ==
    /\ osc_call' = [op |-> "start", dep |-> dep,
                    was_running |-> osc_running, raised |-> FALSE]
    /\ IF osc_running THEN UNCHANGED <<osc_running, osc_server>>
       ELSE IF ~osc_enabled \/ dep # "ok"
       THEN osc_running' = FALSE /\ UNCHANGED osc_server
       ELSE osc_running' = TRUE /\ osc_server' = TRUE
    /\ UNCHANGED <<wh_running, wh_thread, wh_call, osc_enabled>>
    /\ UNCHANGED notCp

\* VRChatOSCInterface.stop
osc_stop ==
    /\ osc_call' = [NoStart EXCEPT !.op = "stop", !.was_running = osc_running]
    /\ osc_running' = FALSE
    /\ osc_server' = FALSE
    /\ UNCHANGED <<wh_running, wh_thread, wh_call, osc_enabled>>
    /\ UNCHANGED notCp

\* the OSC server, once bound, receives a message
osc_delivers(name, value) ==
    /\ osc_server
    /\ on_osc_message(name, TRUE, value)

StartupNext ==
    \/ \E dep \in WhisperDeps : whisper_start(dep)
    \/ whisper_stop
    \/ whisper_worker(<<"a">>)
    \/ get_new_text(FwTag)
    \/ \E dep \in OscDeps : osc_start(dep)
    \/ osc_stop
    \/ osc_delivers("Trainer/Paw", OscBool(TRUE))
    \/ \E credentials, verified, hw_ok \in BOOLEAN :
           ps_start(credentials, verified, hw_ok)
    \/ ps_stop
    \/ \E hw_ok \in BOOLEAN : send_shock(Num(200), Num(5), hw_ok)

(***************************************************************************)
(* Trainer scolding detector (logic/trainer/scolding.py)                   *)
(***************************************************************************)
\* the keys of the mapping the config provider returns; "" is an id that
\* _maybe_send_scold skips
PetIds == {"P", "Q", ""}

NoPetConfig ==
    [present |-> FALSE, feature_scolding |-> FALSE, scolding_words |-> <<>>]

PetConfig(enabled, words) ==
    [present |-> TRUE, feature_scolding |-> enabled, scolding_words |-> words]

\* lists of scolding words as typed: "b"; "!" and "A"; none
ScoldingWordLists == {<<>>, << <<"b">> >>, << <<"!">>, <<"A">> >>}

\* the configurations the provider can return for a pet
PetConfigs(p) ==
    CASE p = "P" -> {NoPetConfig} \cup
             {PetConfig(e, w) : e \in BOOLEAN, w \in ScoldingWordLists}
      [] p = "Q" -> {NoPetConfig, PetConfig(TRUE, << <<"b">> >>),
                     PetConfig(FALSE, << <<"b">> >>)}
      [] OTHER -> {NoPetConfig, PetConfig(TRUE, << <<"!">>, <<"A">> >>)}

NoScoldTick == [read |-> FALSE, text |-> <<>>, sent |-> <<>>]

\* TrainerScoldingFeature._normalise
scold_normalise(text) ==
    IF text = <<>> THEN <<>>
    ELSE JoinTexts(SplitWords(
             [i \in 1..Len(text) |->
                 IF IsAlnum(Lower(text[i])) THEN Lower(text[i]) ELSE " "],
             <<>>))

scold_nonempty(text) == text # <<>>

\* TrainerScoldingFeature._normalise_list
scold_normalise_list(words) ==
    SelectSeq([i \in 1..Len(words) |-> scold_normalise(words[i])],
              scold_nonempty)

\* the feature after __init__ and start(): enabled, no phrases of its own
TsInit ==
    /\ ts_enabled = TRUE
    /\ ts_phrases = <<>>
    /\ ts_configs = [p \in PetIds |-> NoPetConfig]
    /\ ts_tick = NoScoldTick

TsIdle == TsInit

\* start() has called reset_tag on an empty transcript
TsStarted ==
    /\ transcript = <<>>
    /\ tag_positions = [t \in TagKeys |-> IF t = ScoldTag THEN 0 ELSE NoPos]
    /\ tagInit = [t \in TagKeys |-> IF t = ScoldTag THEN 0 ELSE NoPos]
    /\ wasReset = [t \in TagKeys |-> t = ScoldTag]
    /\ delivered = [t \in TagKeys |-> <<>>]
    /\ lastRead = [t \in TagKeys |-> NoRead]
    /\ w_call = NoStoreCall

\* _iter_pet_configs: the provider's mapping
iter_pet_configs == {p \in PetIds : ts_configs[p].present}

\* _get_scolding_phrases(config)
get_scolding_phrases(config) ==
    IF ts_phrases # <<>> THEN ts_phrases
    ELSE scold_normalise_list(config.scolding_words)

\* the test of _maybe_send_scold reading `phrase == normalised`
any_phrase_in_Equal(phrases, normalised) ==
    \E i \in 1..Len(phrases) : phrases[i] = normalised

\* any(phrase in normalised for phrase in phrases)
any_phrase_in(phrases, normalised) ==
    \E i \in 1..Len(phrases) : Contains(normalised, phrases[i])

ScoldCommand(phrase, pet_id) ==
    [phrase |-> phrase, feature |-> "scolding", target_client |-> pet_id]

\* the loop of _maybe_send_scold over pet_configs.items(): the commands
\* handed to server.send_command, in order
RECURSIVE scold_loop(_, _, _)
scold_loop(order, i, normalised) ==
    IF i > Len(order) THEN <<>>
    ELSE LET pet_id == order[i]
             cfg == ts_configs[pet_id]
             phrases == get_scolding_phrases(cfg)
             rest == scold_loop(order, i + 1, normalised)
         IN IF pet_id = "" THEN rest
            ELSE IF ~cfg.feature_scolding THEN rest
            ELSE IF phrases = <<>> THEN rest
            ELSE IF any_phrase_in(phrases, normalised)
                 THEN <<ScoldCommand(normalised, pet_id)>> \o rest
                 ELSE rest

\* TrainerScoldingFeature._maybe_send_scold
maybe_send_scold(order, text) ==
    LET normalised == scold_normalise(text)
    IN IF normalised = <<>> THEN <<>>
       ELSE IF iter_pet_configs = {} THEN <<>>
       ELSE scold_loop(order, 1, normalised)

\* one iteration of TrainerScoldingFeature._worker_loop, the provider's
\* mapping being iterated in `order`
trainer_scolding_tick(order) ==
    /\ order \in Orders(iter_pet_configs)
    /\ IF ~ts_enabled
       THEN /\ ts_tick' = NoScoldTick
            /\ UNCHANGED wvars
       ELSE LET st == get_new_text_on(StoreState, ScoldTag)
                text == st.last[ScoldTag].text
            IN /\ SetStore(st)
               /\ UNCHANGED <<transcript, w_call>>
               /\ ts_tick' =
                      [read |-> TRUE, text |-> scold_normalise(text),
                       sent |-> IF text # <<>>
                                THEN maybe_send_scold(order, text)
                                ELSE <<>>]
    /\ UNCHANGED <<ts_enabled, ts_phrases, ts_configs>>
    /\ UNCHANGED notTs

\* TrainerScoldingFeature.set_enabled
set_enabled(enabled) ==
    /\ enabled # ts_enabled
    /\ ts_enabled' = enabled
    /\ IF enabled /\ ~ts_enabled
       THEN /\ SetStore(reset_tag_on(StoreState, ScoldTag))
            /\ UNCHANGED <<transcript, w_call>>
       ELSE UNCHANGED wvars
    /\ ts_tick' = NoScoldTick
    /\ UNCHANGED <<ts_phrases, ts_configs>>
    /\ UNCHANGED notTs

\* TrainerScoldingFeature.set_scolding_words
set_scolding_words(words) ==
    /\ scold_normalise_list(words) # ts_phrases
    /\ ts_phrases' = scold_normalise_list(words)
    /\ SetStore(reset_tag_on(StoreState, ScoldTag))
    /\ UNCHANGED <<transcript, w_call>>
    /\ ts_tick' = NoScoldTick
    /\ UNCHANGED <<ts_enabled, ts_configs>>
    /\ UNCHANGED notTs

\* the trainer edits the settings of a pet, or a pet joins or leaves
SetPetConfig(pet_id, cfg) ==
    /\ ts_configs[pet_id] # cfg
    /\ ts_configs' = [ts_configs EXCEPT ![pet_id] = cfg]
    /\ ts_tick' = NoScoldTick
    /\ UNCHANGED <<ts_enabled, ts_phrases>>
    /\ UNCHANGED wvars
    /\ UNCHANGED notTs

\* the speech worker appends a chunk of the trainer's speech
TrainerSpeaks(text) ==
    /\ Len(transcript) < MaxSpeech
    /\ AppendChunk(text)

TrainerScoldingNext ==
    \/ \E text \in ChunkTexts : TrainerSpeaks(text)
    \/ \E o \in UNION {Orders(S) : S \in SUBSET PetIds} :
           trainer_scolding_tick(o)
    \/ \E enabled \in BOOLEAN : set_enabled(enabled)
    \/ \E words \in ScoldingWordLists : set_scolding_words(words)
    \/ \E p \in PetIds : \E cfg \in PetConfigs(p) : SetPetConfig(p, cfg)

(***************************************************************************)
(* Trainer command detectors (ProximityFeature._detect_summon_command in   *)
(* logic/trainer/proximity.py, TricksFeature._detect_command in            *)
(* logic/trainer/tricks.py)                                                *)
(*                                                                         *)
(* The alphabet of the model has no "come here" or "sit": the summon       *)
(* phrases are written "a b" (two words, as "come here") and "m" (as       *)
(* "heel"); the trick vocabulary has the command paw with the phrase "m"   *)
(* and the command lay_down with the phrases "a b" and "ab".               *)
(***************************************************************************)
\* chunks spoken while the detectors listen
MaxTalk == 4

\* the look-back of both detectors: get_recent_text_chunks(count=3)
LookBack == 3

\* what the trainer says, chunk by chunk
TalkTexts == {<<"I">>, <<"!">>, <<"m">>}

\* the `names` the features are constructed with, as typed: none; "I";
\* "i m" (a name of two words); "!" (no letter or digit)
NameLists ==
    {<<>>, << <<"I">> >>, << <<"i", " ", "m">> >>, << <<"!">> >>}

\* ProximityFeature._normalise_text and TricksFeature._normalise_text of
\* logic/trainer, which have the same body
td_normalise_text(text) ==
    IF text = <<>> THEN <<>>
    ELSE JoinTexts(SplitWords(
             [i \in 1..Len(text) |->
                 IF IsAlnum(Lower(text[i])) THEN Lower(text[i]) ELSE " "],
             <<>>))

td_nonempty(text) == text # <<>>

\* _normalise_phrases, and the comprehension that fills TricksFeature._pet_names
td_normalise_phrases(phrases) ==
    SelectSeq([i \in 1..Len(phrases) |-> td_normalise_text(phrases[i])],
              td_nonempty)

\* ProximityFeature._command_phrases
SummonPhrases == td_normalise_phrases(<< <<"a", " ", "b">>, <<"m">> >>)

\* TricksFeature._command_phrases, in the order of the dict
CommandPhrases ==
    << [cmd |-> "paw", phrases |-> << <<"m">> >>],
       [cmd |-> "lay_down",
        phrases |-> << <<"a", " ", "b">>, <<"a", "b">> >>] >>

\* " ".join(normalise(chunk) for chunk in recent_chunks) with the chunks
\* that normalise to nothing left out
recent_normalised_SkipBlank(chunks) ==
    JoinTexts(SelectSeq([i \in 1..Len(chunks) |-> td_normalise_text(chunks[i])],
                        td_nonempty))

\* " ".join(self._normalise_text(chunk) for chunk in recent_chunks if chunk):
\* `if chunk` tests the chunk as stored, which is never empty
recent_normalised(chunks) ==
    JoinTexts([i \in 1..Len(SelectSeq(chunks, td_nonempty)) |->
                  td_normalise_text(SelectSeq(chunks, td_nonempty)[i])])

\* any(name in recent_normalised for name in self._pet_names)
name_in_recent(names, chunks) ==
    \E i \in 1..Len(names) : Contains(recent_normalised(chunks), names[i])

\* ProximityFeature._detect_summon_command(text), the transcript being tr
detect_summon_command(text, tr, names) ==
    LET normalised == td_normalise_text(text)
    IN IF normalised = <<>> THEN FALSE
       ELSE IF names # <<>> /\ ~name_in_recent(names, recent_chunks(tr, LookBack))
       THEN FALSE
       ELSE \E i \in 1..Len(SummonPhrases) :
                Contains(normalised, SummonPhrases[i])

\* the loops of _detect_command over self._command_phrases.items() from
\* entry i on: the first command with a phrase in `normalised`, "" for None
RECURSIVE first_command(_, _)
first_command(normalised, i) ==
    IF i > Len(CommandPhrases) THEN ""
    ELSE IF \E j \in 1..Len(CommandPhrases[i].phrases) :
                /\ CommandPhrases[i].phrases[j] # <<>>
                /\ Contains(normalised, CommandPhrases[i].phrases[j])
    THEN CommandPhrases[i].cmd
    ELSE first_command(normalised, i + 1)

\* TricksFeature._detect_command(text), "" for None
detect_command(text, tr, names) ==
    LET normalised == td_normalise_text(text)
    IN IF text = <<>> THEN ""
       ELSE IF normalised = <<>> THEN ""
       ELSE IF names # <<>> /\ ~name_in_recent(names, recent_chunks(tr, LookBack))
       THEN ""
       ELSE first_command(normalised, 1)

NoDetection ==
    [feature |-> "none", text |-> <<>>, recent |-> <<>>, detected |-> FALSE,
     command |-> ""]

\* both features constructed with one of the name lists
TdInit ==
    /\ td_pet_names \in {td_normalise_phrases(names) : names \in NameLists}
    /\ td_tick = NoDetection

TdIdle ==
    /\ td_pet_names = <<>>
    /\ td_tick = NoDetection

\* start() of both features has called reset_tag on an empty transcript
TdStarted ==
    /\ transcript = <<>>
    /\ tag_positions =
           [t \in TagKeys |-> IF t \in {SummonTag, CommandTag} THEN 0 ELSE NoPos]
    /\ tagInit =
           [t \in TagKeys |-> IF t \in {SummonTag, CommandTag} THEN 0 ELSE NoPos]
    /\ wasReset = [t \in TagKeys |-> t \in {SummonTag, CommandTag}]
    /\ delivered = [t \in TagKeys |-> <<>>]
    /\ lastRead = [t \in TagKeys |-> NoRead]
    /\ w_call = NoStoreCall

\* the speech worker appends a chunk of the trainer's speech
TrainerTalks(text) ==
    /\ Len(transcript) < MaxTalk
    /\ transcript' = Append(transcript, text)
    /\ UNCHANGED <<tag_positions, tagInit, wasReset, delivered, lastRead,
                   w_call>>
    /\ UNCHANGED tdvars
    /\ UNCHANGED notTd

\* the enabled ProximityFeature._worker_loop listening for a summon: text =
\* whisper.get_new_text(tag) and `text and self._detect_summon_command(text)`
listen_for_summon ==
    LET st == get_new_text_on(StoreState, SummonTag)
        text == st.last[SummonTag].text
        detected == text # <<>>
                        /\ detect_summon_command(text, transcript, td_pet_names)
    IN /\ SetStore(st)
       /\ UNCHANGED <<transcript, w_call>>
       /\ td_tick' = [feature |-> "proximity", text |-> text,
                      recent |-> recent_chunks(transcript, LookBack),
                      detected |-> detected, command |-> ""]
       /\ UNCHANGED td_pet_names
       /\ UNCHANGED notTd

\* TricksFeature._worker_loop listening for a command: text =
\* whisper.get_new_text(tag) and detected = self._detect_command(text)
listen_for_command ==
    LET st == get_new_text_on(StoreState, CommandTag)
        text == st.last[CommandTag].text
        detected == detect_command(text, transcript, td_pet_names)
    IN /\ SetStore(st)
       /\ UNCHANGED <<transcript, w_call>>
       /\ td_tick' = [feature |-> "tricks", text |-> text,
                      recent |-> recent_chunks(transcript, LookBack),
                      detected |-> detected # "", command |-> detected]
       /\ UNCHANGED td_pet_names
       /\ UNCHANGED notTd

DetectorsNext ==
    \/ \E text \in TalkTexts : TrainerTalks(text)
    \/ listen_for_summon
    \/ listen_for_command

(***************************************************************************)
(* Sessions of the channel (RemoteServerInterface.start_session,           *)
(* join_session, leave_session, stop, _connect_ws and poll_events in       *)
(* interfaces/server.py)                                                   *)
(***************************************************************************)
\* events the incoming queue holds in the model
MaxSessionQueue == 2

\* self._session_id = None
NoSession == ""

Sessions == {"S1", "S2"}

\* a message the server sends on the websocket of `session`
SessionEvent(session) == [session |-> session]

NoSessionPoll == [called |-> FALSE, session |-> NoSession, matched |-> <<>>]

\* after __init__ and a start() whose health probe succeeded
SsInit ==
    /\ ss_session_id = NoSession
    /\ ss_connected = TRUE
    /\ ss_ws = NoSession
    /\ ss_ws_thread = FALSE
    /\ ss_incoming = <<>>
    /\ ss_poll = NoSessionPoll

SsIdle == SsInit

\* _connect_ws gets past `if not self._session_id or self._ws_thread is not
\* None: return`
connects(session_id, ws_thread) == session_id # NoSession /\ ~ws_thread

\* the session in the URL of self._ws after _connect_ws()
connect_ws(session_id) ==
    IF connects(session_id, ss_ws_thread) THEN session_id ELSE ss_ws

\* start_session(session_label) or join_session(session_id); with ok the
\* POST answers with the session, else _post marks the interface
\* disconnected and raises
join_session(session_id, ok) ==
    /\ IF ok
       THEN /\ ss_session_id' = session_id
            /\ ss_connected' = TRUE
            /\ ss_ws' = connect_ws(session_id)
            /\ ss_ws_thread' = TRUE
       ELSE /\ ss_connected' = FALSE
            /\ UNCHANGED <<ss_session_id, ss_ws, ss_ws_thread>>
    /\ ss_poll' = NoSessionPoll
    /\ UNCHANGED ss_incoming
    /\ UNCHANGED notSs

\* leave_session(): the POST, whose failure is swallowed, and the fields it
\* resets
leave_session(ok) ==
    /\ ss_session_id' = NoSession
    /\ ss_connected' = IF ss_session_id = NoSession THEN ss_connected ELSE ok
    /\ ss_poll' = NoSessionPoll
    /\ UNCHANGED <<ss_ws, ss_ws_thread, ss_incoming>>
    /\ UNCHANGED notSs

\* stop()
session_stop ==
    /\ ss_connected' = FALSE
    /\ ss_session_id' = NoSession
    /\ ss_ws' = NoSession
    /\ ss_ws_thread' = FALSE
    /\ ss_poll' = NoSessionPoll
    /\ UNCHANGED ss_incoming
    /\ UNCHANGED notSs

\* _on_message of the websocket: a message of the session in its URL
session_message ==
    /\ ss_ws # NoSession
    /\ Len(ss_incoming) < MaxSessionQueue
    /\ ss_incoming' = Append(ss_incoming, SessionEvent(ss_ws))
    /\ UNCHANGED <<ss_session_id, ss_connected, ss_ws, ss_ws_thread, ss_poll>>
    /\ UNCHANGED notSs

\* _on_close of the websocket
session_ws_closed ==
    /\ ss_ws # NoSession
    /\ ss_connected
    /\ ss_connected' = FALSE
    /\ UNCHANGED <<ss_session_id, ss_ws, ss_ws_thread, ss_incoming, ss_poll>>
    /\ UNCHANGED notSs

\* _on_open of the websocket, run_forever having connected again
session_ws_opened ==
    /\ ss_ws # NoSession
    /\ ~ss_connected
    /\ ss_connected' = TRUE
    /\ UNCHANGED <<ss_session_id, ss_ws, ss_ws_thread, ss_incoming, ss_poll>>
    /\ UNCHANGED notSs

\* poll_events(limit) with no predicate
session_poll(limit) ==
    /\ IF ss_session_id = NoSession \/ ~ss_connected
       THEN /\ ss_poll' = [called |-> TRUE, session |-> ss_session_id,
                           matched |-> <<>>]
            /\ UNCHANGED ss_incoming
       ELSE /\ ss_poll' = [called |-> TRUE, session |-> ss_session_id,
                           matched |-> drained_events(ss_incoming, limit)]
            /\ ss_incoming' = remaining_events(ss_incoming, limit)
    /\ UNCHANGED <<ss_session_id, ss_connected, ss_ws, ss_ws_thread>>
    /\ UNCHANGED notSs

SessionsNext ==
    \/ \E s \in Sessions, ok \in BOOLEAN : join_session(s, ok)
    \/ \E ok \in BOOLEAN : leave_session(ok)
    \/ session_stop
    \/ session_message
    \/ session_ws_closed
    \/ session_ws_opened
    \/ \E limit \in PollLimits : session_poll(limit)

(***************************************************************************)
(* Per-pet profile caches (assign_profile_to_pet, notify_profile_updated,  *)
(* rename_profile_assignment, remove_profile_assignments,                  *)
(* _prune_missing_pet_assignments, _replay_profile_configs and the session *)
(* calls of logic/services.py)                                             *)
(***************************************************************************)
\* dict objects the payload cache can hold at once, and one to allocate
MaxPayloads == 3

PayloadIds == 1..MaxPayloads

\* an empty or missing pet_client_id
NoPetId == ""

PetClients == {"P", "Q"}

\* profile_name None or ""
NoProfile == ""

Profiles == {"A", "B", "C"}

\* the contents of a settings dict: its "profile" entry ("" when it has
\* none) and the revision of everything else in it
Revisions == {1, 2}

ProfileSettings(profile, rev) == [profile |-> profile, rev |-> rev]

\* profile_settings None or {}, and a free cell of the heap
NoSettings == ProfileSettings(NoProfile, 0)

SettingsOf(profile) == {ProfileSettings(profile, rev) : rev \in Revisions}

\* what a caller passes to assign_profile_to_pet: no profile at all, a
\* profile without its settings, or a profile with settings of its own
AssignInputs ==
    {<<NoProfile, NoSettings>>}
        \cup {<<n, NoSettings>> : n \in Profiles}
        \cup UNION {{<<n, s>> : s \in SettingsOf(n)} : n \in Profiles}

\* what a caller passes to notify_profile_updated: settings with or without
\* a "profile" entry
NotifyInputs == UNION {SettingsOf(n) : n \in Profiles \cup {NoProfile}}

\* d.pop(k, None) and d[k] = v of a dict kept as a function
dict_pop(d, keys) == [k \in DOMAIN d \ keys |-> d[k]]

dict_set(d, keys, v) ==
    [k \in DOMAIN d \cup keys |-> IF k \in keys THEN v ELSE d[k]]

NoEntries == [k \in {} |-> NoProfile]

EmptyHeap == [o \in PayloadIds |-> NoSettings]

\* dict(...) makes an object no cached payload refers to
new_payload(payloads) ==
    CHOOSE o \in PayloadIds :
        /\ \A p \in DOMAIN payloads : payloads[p] # o
        /\ \A q \in PayloadIds :
               (\A p \in DOMAIN payloads : payloads[p] # q) => o <= q

\* objects no cached payload refers to any more are collected
collected(heap, payloads) ==
    [o \in PayloadIds |->
        IF \E p \in DOMAIN payloads : payloads[p] = o
        THEN heap[o] ELSE NoSettings]

\* the pets whose assignment is `profile`
assigned_to(assignments, profile) ==
    {p \in DOMAIN assignments : assignments[p] = profile}

\* the cached payload of a pet as a replay would send it
cached_payload(pet) == pp_heap[pp_payloads[pet]]

\* the pets whose cached payload is not what it was before the call
payload_changed(payloads, heap) ==
    {p \in DOMAIN payloads :
        p \notin DOMAIN pp_payloads \/ heap[payloads[p]] # cached_payload(p)}

ProfileCall(op, targets, sent, changed) ==
    [op |-> op, targets |-> targets, sent |-> sent, changed |-> changed]

NoProfileCall == ProfileCall("none", {}, {}, {})

PpInit ==
    /\ pp_assignments = NoEntries
    /\ pp_payloads = NoEntries
    /\ pp_heap = EmptyHeap
    /\ pp_call = NoProfileCall

PpIdle == PpInit

\* _send_profile_config_to_pet(targets, settings): the config messages it
\* hands to send_config
send_profile_config(targets, settings) ==
    IF targets = {} \/ settings = NoSettings
    THEN {}
    ELSE {<<p, settings>> : p \in targets}

\* `if profile_settings:` of assign_profile_to_pet
caches_settings_Always(profile_settings) == TRUE

caches_settings(profile_settings) == profile_settings # NoSettings

assign_profile_to_pet(pet_client_id, profile_name, profile_settings) ==
    /\ IF pet_client_id = NoPetId
       THEN /\ UNCHANGED <<pp_assignments, pp_payloads, pp_heap>>
            /\ pp_call' = ProfileCall("assign", {}, {}, {})
       ELSE IF profile_name = NoProfile
       THEN LET payloads == dict_pop(pp_payloads, {pet_client_id})
            IN /\ pp_assignments' = dict_pop(pp_assignments, {pet_client_id})
               /\ pp_payloads' = payloads
               /\ pp_heap' = collected(pp_heap, payloads)
               /\ pp_call' = ProfileCall("assign", {pet_client_id}, {}, {})
       ELSE IF caches_settings(profile_settings)
       THEN LET o == new_payload(pp_payloads)
                payloads == dict_set(pp_payloads, {pet_client_id}, o)
                heap ==
                    collected([pp_heap EXCEPT ![o] = profile_settings],
                              payloads)
            IN /\ pp_assignments' =
                      dict_set(pp_assignments, {pet_client_id}, profile_name)
               /\ pp_payloads' = payloads
               /\ pp_heap' = heap
               /\ pp_call' =
                      ProfileCall("assign", {pet_client_id},
                          send_profile_config({pet_client_id},
                                              profile_settings),
                          payload_changed(payloads, heap))
       ELSE /\ pp_assignments' =
                   dict_set(pp_assignments, {pet_client_id}, profile_name)
            /\ UNCHANGED <<pp_payloads, pp_heap>>
            /\ pp_call' = ProfileCall("assign", {pet_client_id}, {}, {})
    /\ UNCHANGED notPp

notify_profile_updated(settings) ==
    LET profile_name == settings.profile
        targets == assigned_to(pp_assignments, profile_name)
    IN /\ IF profile_name = NoProfile \/ targets = {}
          THEN /\ UNCHANGED <<pp_payloads, pp_heap>>
               /\ pp_call' = ProfileCall("notify", {}, {}, {})
          ELSE LET o == new_payload(pp_payloads)
                   payloads == dict_set(pp_payloads, targets, o)
                   heap ==
                       collected([pp_heap EXCEPT ![o] = settings], payloads)
               IN /\ pp_payloads' = payloads
                  /\ pp_heap' = heap
                  /\ pp_call' =
                         ProfileCall("notify", targets,
                             send_profile_config(targets, settings),
                             payload_changed(payloads, heap))
       /\ UNCHANGED pp_assignments
       /\ UNCHANGED notPp

\* the loop writes payload["profile"] into the cached object itself
rename_profile_assignment(old_name, new_name) ==
    /\ IF old_name = NoProfile \/ new_name = NoProfile \/ old_name = new_name
       THEN /\ UNCHANGED <<pp_assignments, pp_payloads, pp_heap>>
            /\ pp_call' = ProfileCall("rename", {}, {}, {})
       ELSE LET targets == assigned_to(pp_assignments, old_name)
                cached == targets \cap DOMAIN pp_payloads
                heap ==
                    [o \in PayloadIds |->
                        IF \E p \in cached : pp_payloads[p] = o
                        THEN [pp_heap[o] EXCEPT !.profile = new_name]
                        ELSE pp_heap[o]]
            IN /\ pp_assignments' = dict_set(pp_assignments, targets, new_name)
               /\ pp_heap' = heap
               /\ UNCHANGED pp_payloads
               /\ pp_call' =
                      ProfileCall("rename", targets,
                          {<<p, heap[pp_payloads[p]]>> : p \in cached},
                          payload_changed(pp_payloads, heap))
    /\ UNCHANGED notPp

remove_profile_assignments(profile_name) ==
    LET targets == assigned_to(pp_assignments, profile_name)
        payloads == dict_pop(pp_payloads, targets)
    IN /\ pp_assignments' = dict_pop(pp_assignments, targets)
       /\ pp_payloads' = payloads
       /\ pp_heap' = collected(pp_heap, payloads)
       /\ pp_call' = ProfileCall("remove", targets, {}, {})
       /\ UNCHANGED notPp

\* start_server_session(...): whether or not server.start_session raised,
\* both caches are cleared
start_server_session ==
    /\ pp_assignments' = NoEntries
    /\ pp_payloads' = NoEntries
    /\ pp_heap' = EmptyHeap
    /\ pp_call' = ProfileCall("start", {}, {}, {})
    /\ UNCHANGED notPp

\* join_server_session(session_id): likewise
join_server_session ==
    /\ pp_assignments' = NoEntries
    /\ pp_payloads' = NoEntries
    /\ pp_heap' = EmptyHeap
    /\ pp_call' = ProfileCall("join", {}, {}, {})
    /\ UNCHANGED notPp

\* leave_server_session(): likewise
leave_server_session ==
    /\ pp_assignments' = NoEntries
    /\ pp_payloads' = NoEntries
    /\ pp_heap' = EmptyHeap
    /\ pp_call' = ProfileCall("leave", {}, {}, {})
    /\ UNCHANGED notPp

\* _prune_missing_pet_assignments(session_pets), which
\* get_server_session_details calls with the pets of the session
prune_missing_pet_assignments(active_ids) ==
    LET missing == DOMAIN pp_assignments \ active_ids
        payloads == dict_pop(pp_payloads, missing)
    IN /\ pp_assignments' = dict_pop(pp_assignments, missing)
       /\ pp_payloads' = payloads
       /\ pp_heap' = collected(pp_heap, payloads)
       /\ pp_call' = ProfileCall("prune", missing, {}, {})
       /\ UNCHANGED notPp

\* _replay_profile_configs(), which _build_trainer_interfaces calls when the
\* trainer runtime is built
replay_profile_configs ==
    /\ pp_call' =
           ProfileCall("replay", DOMAIN pp_payloads,
               {<<p, cached_payload(p)>> : p \in DOMAIN pp_payloads}, {})
    /\ UNCHANGED <<pp_assignments, pp_payloads, pp_heap>>
    /\ UNCHANGED notPp

ProfilesNext ==
    \/ \E pet \in PetClients \cup {NoPetId}, inp \in AssignInputs :
           assign_profile_to_pet(pet, inp[1], inp[2])
    \/ \E settings \in NotifyInputs : notify_profile_updated(settings)
    \/ \E old \in Profiles \cup {NoProfile}, new \in Profiles \cup {NoProfile} :
           rename_profile_assignment(old, new)
    \/ \E n \in Profiles : remove_profile_assignments(n)
    \/ start_server_session
    \/ join_server_session
    \/ leave_server_session
    \/ \E active \in SUBSET PetClients : prune_missing_pet_assignments(active)
    \/ replay_profile_configs

(***************************************************************************)
(* Specifications                                                          *)
(***************************************************************************)
vars == <<wvars, scvars, pvars, petvars, compvars>>

\* the components that a specification does not observe stay as constructed
CompIdle ==
    SnIdle /\ NmIdle /\ CpIdle /\ TsIdle /\ TdIdle /\ SsIdle /\ PpIdle

InitTranscript == WInit /\ ScIdle /\ PIdle /\ PetIdle /\ CompIdle

SpecTranscript == InitTranscript /\ [][WNext]_vars

SpecStoreCalls == InitTranscript /\ [][StoreCallsNext]_vars

InitScaling == ScInit /\ WIdle /\ PIdle /\ PetIdle /\ CompIdle

SpecScaling == InitScaling /\ [][ScNext]_vars

InitParams == PInit /\ WIdle /\ ScIdle /\ PetIdle /\ CompIdle

SpecParams == InitParams /\ [][PNext]_vars

\* the pet runtime with feature f running
PetInit(f) ==
    /\ EInit
    /\ feat = f
    /\ FwInit
    /\ WgInit
    /\ PlInit
    /\ FcInit
    /\ TkInit
    /\ PxInit
    /\ LcInit
    /\ ChInit
    /\ TlInit
    /\ PsIdle
    /\ WIdle
    /\ ScIdle
    /\ PIdle
    /\ CompIdle

InitForbidden == PetInit("forbidden")

SpecForbidden == InitForbidden /\ [][ForbiddenNext]_vars

InitPull == PetInit("pull")

SpecPull == InitPull /\ [][PullNext]_vars

InitFocus == PetInit("focus")

SpecFocus == InitFocus /\ [][FocusNext]_vars

InitTricks == PetInit("tricks")

SpecTricks == InitTricks /\ [][TricksNext]_vars

\* the worker ticks every 0.2 s while it runs, and time passes
SpecTricksFair ==
    InitTricks /\ [][TricksNext]_vars
        /\ WF_vars(AdvanceTime) /\ WF_vars(TricksTick)

InitProximity == PetInit("proximity")

SpecProximity == InitProximity /\ [][ProximityNext]_vars

\* the worker ticks every 0.1 s while it runs, and time passes
SpecSummonFair ==
    InitProximity /\ [][SummonNext]_vars
        /\ WF_vars(AdvanceTime) /\ WF_vars(ProximityTick)

\* pet Tricks with the events it polls observed
SpecTrickEvents == InitTricks /\ [][TrickEventsNext]_vars

InitLifecycle ==
    /\ EInit
    /\ feat \in {"scolding", "depth"}
    /\ FwInit
    /\ WgInit
    /\ PlInit
    /\ FcInit
    /\ TkInit
    /\ PxInit
    /\ LcInit
    /\ ChInit
    /\ TlInit
    /\ PsIdle
    /\ WIdle
    /\ ScIdle
    /\ PIdle
    /\ CompIdle

SpecLifecycle == InitLifecycle /\ [][LifecycleNext]_vars

\* an actuator constructed for either role
InitActuator ==
    /\ EInit
    /\ feat = "actuator"
    /\ FwInit
    /\ WgInit
    /\ PlInit
    /\ FcInit
    /\ TkInit
    /\ PxInit
    /\ LcInit
    /\ ChInit
    /\ TlInit
    /\ \E role \in Roles : PsInit(role)
    /\ WIdle
    /\ ScIdle
    /\ PIdle
    /\ CompIdle

SpecActuator == InitActuator /\ [][ActuatorNext]_vars

\* Depth on its own
DepthNext ==
    \/ start_worker
    \/ stop_worker
    \/ \E w \in Workers : worker_exit(w)
    \/ \E w \in Workers, d \in DepthReadings : depth_tick(w, d)
    \/ AdvanceTime
    \/ \E t \in Trainers : \E c \in DepthConfigs[t] : SetConfig(t, c)

InitDepth == PetInit("depth")

SpecDepth == InitDepth /\ [][DepthNext]_vars

FocusEventTick ==
    \E t \in Speakers, n \in FocusEventCounts, o \in AllOrders,
       f \in FocusReadings : focus_event_tick(t, n, o, f)

\* pet Focus with the events it polls observed
FocusEventsNext ==
    \/ AdvanceTime
    \/ \E t \in Trainers : \E c \in FewConfigs[t] : SetConfig(t, c)
    \/ FocusEventTick

SpecFocusEvents == InitFocus /\ [][FocusEventsNext]_vars

\* the settings pushed while an idle tick is observed, per running feature
IdleConfigs ==
    IF feat = "forbidden" THEN TrainerConfigs
    ELSE IF feat = "proximity" THEN ProximityConfigs
    ELSE FewConfigs

\* the focus commands the websocket delivers
FocusCommands == {CommandEvent(t, "focus") : t \in Speakers}

\* the per-trainer pet features, one of them running and one trainer in the
\* session: Forbidden Words with the
\* transcript it reads, Focus with the session channel it polls, Proximity
\* with the telemetry it sends, Scolding with its worker thread
IdleNext ==
    \/ AdvanceTime
    \/ \E t \in Speakers : \E c \in IdleConfigs[t] : SetConfig(t, c)
    \/ \E text \in ChunkTexts : Speak(text)
    \/ \E o \in AllOrders : forbidden_tick(o)
    \/ on_open
    \/ on_close
    \/ \E data \in FocusCommands : on_message(data)
    \/ \E o \in AllOrders, f \in FocusReadings : focus_poll_tick(o, f)
    \/ ProximityTick
    \/ start
    \/ stop
    \/ \E w \in Workers : feat = "scolding" /\ worker_exit(w)
    \/ \E w \in Workers, o \in AllOrders, e \in [Trainers -> BOOLEAN] :
           scolding_tick(w, o, e, "none")

InitIdle ==
    /\ EInit
    /\ feat \in {"forbidden", "focus", "proximity", "scolding"}
    /\ FwInit
    /\ WgInit
    /\ PlInit
    /\ FcInit
    /\ TkInit
    /\ PxInit
    /\ LcInit
    /\ ChInit
    /\ TlInit
    /\ PsIdle
    /\ WIdle
    /\ ScIdle
    /\ PIdle
    /\ CompIdle

SpecIdle == InitIdle /\ [][IdleNext]_vars

InitShutdown == PetInit("shutdown")

\* every live worker thread is scheduled again and again
SpecShutdownFair ==
    InitShutdown /\ [][ShutdownNext]_vars
        /\ \A w \in Workers : WF_vars(WorkerStep(w))

\* start() without a lock around the test and the assignment of _running
SpecRestart == InitShutdown /\ [][RestartNext]_vars

InitChannel == PetInit("channel")

SpecChannel == InitChannel /\ [][ChannelNext]_vars

\* the word game after start()
InitWordGame ==
    /\ EInit
    /\ feat = "wordgame"
    /\ FwInit
    /\ WgInit
    /\ PlInit
    /\ FcInit
    /\ TkInit
    /\ PxInit
    /\ LcInit
    /\ ChInit
    /\ TlInit
    /\ PsIdle
    /\ WgStarted
    /\ ScIdle
    /\ PIdle
    /\ CompIdle

SpecWordGame == InitWordGame /\ [][WordGameNext]_vars

InitSnapshot ==
    /\ SnInit
    /\ WIdle
    /\ ScIdle
    /\ PIdle
    /\ PetIdle
    /\ NmIdle
    /\ CpIdle
    /\ TsIdle
    /\ TdIdle
    /\ SsIdle
    /\ PpIdle

SpecSnapshot == InitSnapshot /\ [][SnapshotNext]_vars

InitNormalise ==
    /\ NmInit
    /\ WIdle
    /\ ScIdle
    /\ PIdle
    /\ PetIdle
    /\ SnIdle
    /\ CpIdle
    /\ TsIdle
    /\ TdIdle
    /\ SsIdle
    /\ PpIdle

SpecNormalise == InitNormalise /\ [][NormaliseNext]_vars

\* the interfaces as constructed for either role
InitStartup ==
    /\ EInit
    /\ feat = "actuator"
    /\ FwInit
    /\ WgInit
    /\ PlInit
    /\ FcInit
    /\ TkInit
    /\ PxInit
    /\ LcInit
    /\ ChInit
    /\ TlInit
    /\ \E role \in Roles : PsInit(role) /\ CpInit(role)
    /\ WInit
    /\ ScIdle
    /\ PInit
    /\ SnIdle
    /\ NmIdle
    /\ TsIdle
    /\ TdIdle
    /\ SsIdle
    /\ PpIdle

SpecStartup == InitStartup /\ [][StartupNext]_vars

\* the trainer runtime with the scolding detector started
InitTrainerScolding ==
    /\ TsInit
    /\ TsStarted
    /\ ScIdle
    /\ PIdle
    /\ PetIdle
    /\ SnIdle
    /\ NmIdle
    /\ CpIdle
    /\ TdIdle
    /\ SsIdle
    /\ PpIdle

SpecTrainerScolding == InitTrainerScolding /\ [][TrainerScoldingNext]_vars

\* the trainer runtime with the command detectors started
InitDetectors ==
    /\ TdInit
    /\ TdStarted
    /\ ScIdle
    /\ PIdle
    /\ PetIdle
    /\ SnIdle
    /\ NmIdle
    /\ CpIdle
    /\ TsIdle
    /\ SsIdle
    /\ PpIdle

SpecDetectors == InitDetectors /\ [][DetectorsNext]_vars

\* the session interface after __init__ and start()
InitSessions ==
    /\ SsInit
    /\ WIdle
    /\ ScIdle
    /\ PIdle
    /\ PetIdle
    /\ SnIdle
    /\ NmIdle
    /\ CpIdle
    /\ TsIdle
    /\ TdIdle
    /\ PpIdle

SpecSessions == InitSessions /\ [][SessionsNext]_vars

\* the caches of a freshly imported logic/services.py
InitProfiles ==
    /\ PpInit
    /\ WIdle
    /\ ScIdle
    /\ PIdle
    /\ PetIdle
    /\ SnIdle
    /\ NmIdle
    /\ CpIdle
    /\ TsIdle
    /\ TdIdle
    /\ SsIdle

SpecProfiles == InitProfiles /\ [][ProfilesNext]_vars

(***************************************************************************)
(* C3: whatever the interleaving of appends and of get_new_text calls of   *)
(* any tags, a tag that was never reset has been handed exactly the        *)
(* chunks appended since its cursor was created, once each and in append   *)
(* order, every returned text is the space-joined text of the chunks of    *)
(* its read, and a read by one tag changes neither the cursor nor the      *)
(* deliveries of another tag.                                              *)
(***************************************************************************)
C3_EachTagGetsItsSuffixOnce ==
    /\ [](\A t \in Tags :
            /\ (tag_positions[t] # NoPos /\ ~wasReset[t]) =>
                   delivered[t] = SubSeq(transcript, tagInit[t] + 1, tag_positions[t])
            /\ lastRead[t].from # NoPos =>
                   lastRead[t].text =
                       JoinTexts(SubSeq(transcript, lastRead[t].from + 1, lastRead[t].to)))
    /\ [][\A t, u \in Tags :
             (u # t /\ get_new_text(u)) =>
                 /\ tag_positions'[t] = tag_positions[t]
                 /\ delivered'[t] = delivered[t]
                 /\ lastRead'[t] = lastRead[t]]_wvars

\* both tags were created at different transcript lengths and both have read;
\* one of them got two chunks in a single read
C3_Witness ==
    /\ Len(transcript) = MaxChunks
    /\ tagInit[FwTag] = 0 /\ tagInit[WgTag] = 1
    /\ ~wasReset[FwTag] /\ ~wasReset[WgTag]
    /\ tag_positions[FwTag] = MaxChunks /\ tag_positions[WgTag] = MaxChunks
    /\ lastRead[FwTag].to - lastRead[FwTag].from >= 2
    /\ Len(delivered[WgTag]) = MaxChunks - 1
(***************************************************************************)
(* C4: the get_new_text call that creates a tag returns "" whatever the    *)
(* transcript already holds; no read of the tag ever starts before the     *)
(* transcript length at which the tag was created; and a read that spans   *)
(* exactly one appended chunk returns exactly that chunk's text.           *)
(***************************************************************************)
C4_FutureOnly ==
    \A t \in Tags :
        /\ lastRead[t].first => lastRead[t].text = <<>>
        /\ lastRead[t].from # NoPos => lastRead[t].from >= tagInit[t]
        /\ (lastRead[t].from # NoPos /\ lastRead[t].to = lastRead[t].from + 1) =>
               lastRead[t].text = transcript[lastRead[t].to]

\* the tag was created by get_new_text over two existing chunks, then one
\* chunk was appended and read
C4_Witness ==
    \E t \in Tags :
        /\ tagInit[t] = 2 /\ ~wasReset[t]
        /\ ~lastRead[t].first
        /\ lastRead[t].from = 2 /\ lastRead[t].to = 3
        /\ lastRead[t].text = transcript[3]
        /\ delivered[t] = <<transcript[3]>>

(***************************************************************************)
(* C9: for every configuration mapping both resolvers give each of the     *)
(* four scale keys a finite value in [0, 2] that depends on that key's raw *)
(* value only: a finite number is clamped into the range, a missing, None  *)
(* or non-numeric value (and every key of a non-mapping) gives 1.0.        *)
(***************************************************************************)
C9_Expected(raw) ==
    CASE raw.k = "num" -> (IF raw.v < 0 THEN {0} ELSE IF raw.v > 20 THEN {20} ELSE {raw.v})
      [] raw.k \in {"missing", "none", "str"} -> {10}
      [] OTHER -> 0..20

C9_ScalingClamp ==
    \A res \in {sc_result, sx_result} :
        res # NoResult =>
            \A key \in ScaleKeys :
                /\ res[key].k = "num"
                /\ res[key].v \in 0..20
                /\ IF sc_config = NotADict THEN res[key].v = 10
                   ELSE res[key].v \in C9_Expected(sc_config[key])

\* a mapping with an out-of-range number, a non-numeric string, a missing
\* key and None has been resolved by both resolvers
C9_Witness ==
    /\ sc_config # NotADict
    /\ sc_config["strength_scale"] = Num(25)
    /\ sc_config["cooldown_scale"] = BadStr
    /\ sc_config["delay_scale"] = Missing
    /\ sc_config["duration_scale"] = Num(-5)
    /\ sc_result # NoResult /\ sx_result # NoResult
    /\ sc_result["strength_scale"] = Num(20)
    /\ sx_result["duration_scale"] = Num(0)

(***************************************************************************)
(* C10: get_bool_param gives back the caller's (boolean) default whenever  *)
(* the parameter has no value, be it never received or stored as None, and *)
(* decodes every stored value: a bool as itself, a number as value != 0,   *)
(* the strings 1/true/yes/on as True and 0/false/no/off as False ignoring  *)
(* case and surrounding spaces, any other non-empty string as True.        *)
(***************************************************************************)
C10_Decoded(stored) ==
    CASE stored.k = "bool" -> {stored.v = 1}
      [] stored.k = "num"  -> {stored.v # 0}
      [] stored.k = "str" /\ stored.s \in {"1", " YES ", "On"} -> {TRUE}
      [] stored.k = "str" /\ stored.s \in {"0", "False", " off"} -> {FALSE}
      [] stored.k = "str" /\ stored.s # "" -> {TRUE}
      [] OTHER -> BOOLEAN

C10_BoolParamHonoursDefault ==
    p_call.op = "get_bool_param" =>
        IF p_call.stored \in {Absent, OscNone}
        THEN p_call.default.k = "bool" => p_call.result = (p_call.default.v = 1)
        ELSE p_call.result \in C10_Decoded(p_call.stored)

(***************************************************************************)
(* Parameter store: get_float_param                                        *)
(***************************************************************************)
\* the value the decoding rules give a stored value or a default, in 1/32
C11_Decoded(raw) ==
    CASE raw.k = "none" -> {0}
      [] raw.k = "bool" -> {IF raw.v = 1 THEN OscOne ELSE 0}
      [] raw.k = "num"  -> {IF raw.v < 0 THEN 0
                            ELSE IF raw.v > OscOne THEN OscOne ELSE raw.v}
      [] raw.k = "str" /\ raw.s \in {"1", " 1.5 "} -> {OscOne}
      [] raw.k = "str" /\ raw.s = "0.5" -> {OscOne \div 2}
      [] raw.k = "str" /\ raw.s \in {"nan", "-inf"} -> 0..OscOne
      [] raw.k = "str" -> {0}
      [] raw.k = "other" -> {0}
      [] OTHER -> 0..OscOne

\* C11: get_float_param returns 0.0 whenever the parameter has no stored
\* value, be it never received or received without a value, whatever the
\* default, and every result lies in [0.0, 1.0].
C11_FloatParamIgnoresDefault ==
    p_call.op = "get_float_param" =>
        /\ p_call.stored \in {Absent, OscNone} => p_call.fresult = 0
        /\ p_call.fresult \in 0..OscOne

\* C11 as the code has it: a parameter received without a value gives 0.0
\* whatever the default; a parameter never received gives the decoded
\* default (0.0 for None); a stored value is decoded by its type; every
\* result lies in [0.0, 1.0].
C11_FloatParamOfCode ==
    p_call.op = "get_float_param" =>
        /\ p_call.stored = OscNone => p_call.fresult = 0
        /\ p_call.stored = Absent => p_call.fresult \in C11_Decoded(p_call.default)
        /\ p_call.stored \notin {Absent, OscNone}
              => p_call.fresult \in C11_Decoded(p_call.stored)
        /\ p_call.fresult \in 0..OscOne

\* get_float_param(name, default=1.0) was called for a name never received
\* and gave 1.0, while another name is stored without a value
C11_Witness ==
    /\ p_call.op = "get_float_param"
    /\ p_call.stored = Absent
    /\ p_call.default = OscNum(OscOne)
    /\ p_call.fresult = OscOne
    /\ \E n \in ParamNames : param_values[n] = OscNone

(***************************************************************************)
(* Cooldowns                                                               *)
(***************************************************************************)
\* the cooldown resolved from a configuration: base x clamped cooldown_scale
C1_Resolved(base, config) ==
    (base * scaling_from_config(config.scales)["cooldown_scale"].v) \div 10

C1_Base == IF feat = "forbidden" THEN FwBaseCooldown ELSE FcBaseCooldown

\* a shock for trainer t comes no sooner after the previous shock for t than
\* the cooldown resolved for t when that one fired, t having stayed active
C1_PerTrainer ==
    \A t \in Trainers :
        (last_shock[t].some /\ last_shock'[t].some
            /\ last_shock'[t] # last_shock[t])
        => now - last_shock[t].at >= C1_Resolved(C1_Base, last_shock[t].cfg)

\* a Pull shock comes no sooner after the previous one than the cooldown
\* resolved for any trainer whose settings were the same all the while
C1_Pull ==
    (pull_last.some /\ pull_last' # pull_last)
    => \A t \in Trainers :
          (latest_settings[t].present /\ stable[t])
          => now - pull_last.at
                 >= C1_Resolved(PullCooldownSeconds, latest_settings[t])

\* C1: for every pet feature and trainer T, two shocks fired for the
\* (feature, T) pair are separated by at least base cooldown x T's clamped
\* cooldown_scale.
C1_CooldownInvariant == [][C1_PerTrainer /\ C1_Pull]_vars

\* the per-trainer part of C1 alone (Forbidden Words, Focus)
C1_PerTrainerCooldown == [][C1_PerTrainer]_vars

\* Pull shocks are separated by Pull's own fixed two seconds
C1_PullFixedCooldown ==
    [][(pull_last.some /\ pull_last' # pull_last)
        => now - pull_last.at >= PullCooldownSeconds]_vars

(***************************************************************************)
(* Forbidden words: attribution                                            *)
(***************************************************************************)
\* trainer t's own normalised phrase list has a phrase inside `text`
C7_Matches(t, text) ==
    \E i \in 1..Len(latest_settings[t].forbidden_words) :
        LET phrase == normalise(latest_settings[t].forbidden_words[i])
        IN phrase # <<>> /\ Contains(text, phrase)

C7_Fired(t) == \E i \in 1..Len(tick'.fired) : tick'.fired[i].trainer = t

\* C7: a forbidden-words tick shocks for a trainer, and arms that trainer's
\* cooldown, only if one of the trainer's own normalised phrases is a
\* substring of the tick's normalised text; a trainer whose list is empty is
\* never shocked for and never gets a cooldown.
C7_Attribution ==
    [][tick'.feat = "forbidden"
       => \A t \in Trainers :
             (C7_Fired(t) \/ (fw_state'[t] > 0 /\ fw_state'[t] # fw_state[t]))
             => /\ C7_Matches(t, tick'.text)
                /\ C7_Fired(t)
                /\ fw_state'[t] = now + C1_Resolved(FwBaseCooldown,
                                                   latest_settings[t])]_vars

\* both trainers active, A with a phrase the text contains and B with an
\* empty list: the shock is A's, A's cooldown is armed and B's is not
C7_Witness ==
    /\ tick.feat = "forbidden"
    /\ latest_settings["A"] = CfgPlain
    /\ latest_settings["B"] = CfgEmpty
    /\ Contains(tick.text, <<"a", " ", "b">>)
    /\ Len(tick.fired) = 1
    /\ tick.fired[1].trainer = "A"
    /\ fw_state["A"] = now + FwBaseCooldown
    /\ fw_state["B"] = 0

(***************************************************************************)
(* Pull: requested strength                                                *)
(***************************************************************************)
\* C8: a Pull shock for stretch s >= 0.5 requests the strength
\* 20 + (s - 0.5) / (1 - 0.5) x (40 - 20), within [20, 40].
C8_PullStrength ==
    (tick.feat = "pull" /\ tick.fired # <<>>)
    => /\ tick.fired[1].strength * (StretchDen - PullThreshold)
              = 20 * (StretchDen - PullThreshold)
                  + (tick.stretch - PullThreshold) * (40 - 20)
       /\ tick.fired[1].strength >= 20
       /\ tick.fired[1].strength <= 40

\* what the code requests: 20 + int((s - 0.5) x 80), between 20 and 60
C8_PullStrengthOfCode ==
    (tick.feat = "pull" /\ tick.fired # <<>>)
    => /\ tick.stretch >= PullThreshold
       /\ tick.fired[1].strength
              = 20 + ((tick.stretch - PullThreshold) * 80) \div StretchDen
       /\ tick.fired[1].strength >= 20
       /\ tick.fired[1].strength <= 60
       /\ (tick.stretch = 128 => tick.fired[1].strength = 44)

(***************************************************************************)
(* Tricks: timeout of a pending command                                    *)
(***************************************************************************)
C2_Timeout(config) ==
    (TkBaseCommandTimeout * scaling_from_config(config.scales)["delay_scale"].v)
        \div 10

C2_Cooldown(config) ==
    (TkBaseCooldown * scaling_from_config(config.scales)["cooldown_scale"].v)
        \div 10

\* the failure shocks the tick of this step requested for trainer t
C2_Shocks(t) ==
    Cardinality({i \in 1..Len(tick'.fired) :
                    tick'.fired[i].kind = "shock" /\ tick'.fired[i].trainer = t})

C2_Step ==
    tick'.feat = "tricks" =>
        \A t \in Trainers :
            /\ C2_Shocks(t) <= 1
            /\ ~tk_state'[t].present => C2_Shocks(t) = 0
            /\ (~tk_state[t].pending /\ tk_state'[t].pending)
               => /\ tk_state'[t].deadline
                         = now + C2_Timeout(latest_settings[t])
                  /\ tk_state'[t].name \in CommandNames
                  /\ C2_Shocks(t) = 0
            /\ (tk_state[t].pending /\ tk_state'[t].pending)
               => /\ tk_state'[t] = tk_state[t]
                  /\ C2_Shocks(t) = 0
                  /\ (now < tk_state[t].deadline
                         \/ now < tk_state[t].cooldown_until)
            /\ (tk_state[t].pending /\ ~tk_state'[t].pending
                   /\ tk_state'[t].present /\ t \notin tick'.done)
               => /\ C2_Shocks(t) = 1
                  /\ now >= tk_state[t].deadline
                  /\ now >= tk_state[t].cooldown_until
                  /\ tk_state'[t].cooldown_until
                         = now + C2_Cooldown(latest_settings[t])

\* a pending command whose deadline and cooldown end within the horizon
C2_Due(t) ==
    /\ tk_state[t].pending
    /\ tk_state[t].deadline <= MaxTime
    /\ tk_state[t].cooldown_until <= MaxTime

\* C2: a known command from an active trainer T makes T's state pending with
\* deadline now + scaled timeout; while it stays pending no failure shock is
\* sent; with the pose false and T active it is cleared by exactly one
\* failure shock, at a tick at or after both the deadline and the end of T's
\* cooldown; and a pending command is always cleared eventually.
C2_TricksTimeout ==
    /\ [][C2_Step]_vars
    /\ \A t \in Trainers : C2_Due(t) ~> ~tk_state[t].pending

\* a command whose deadline passed while the trainer's cooldown from an
\* earlier failure was running has just failed with one shock
C2_Witness ==
    /\ tick.feat = "tricks"
    /\ \E i \in 1..Len(tick.failed) :
          /\ tick.failed[i].deadline < tick.failed[i].cooldown_until
          /\ tick.failed[i].cooldown_until > 0
          /\ ~tk_state[tick.failed[i].trainer].pending
          /\ Cardinality({j \in 1..Len(tick.fired) :
                 /\ tick.fired[j].kind = "shock"
                 /\ tick.fired[j].trainer = tick.failed[i].trainer}) = 1

(***************************************************************************)
(* Lifecycle                                                               *)
(***************************************************************************)
C5_Fields == <<lc_running, lc_stop_event, lc_thread, lc_workers, sd_state, wvars>>

C5_Alive == {w \in Workers : lc_workers[w] = "alive"}

\* C5: start() on a running feature starts no worker and stop() on a feature
\* that is not running changes nothing and sets no stop signal; a running
\* feature that was started once has exactly one worker, which is alive
\* unless an exception ended it.
C5_IdempotentStartStop ==
    /\ [][(lc_op' # lc_op)
          => /\ (lc_op'.op = "start" /\ lc_running) => UNCHANGED C5_Fields
             /\ (lc_op'.op = "stop" /\ ~lc_running) => UNCHANGED C5_Fields]_vars
    /\ [](lc_running
          => /\ lc_thread \in Workers
             /\ lc_workers[lc_thread] \in {"alive", "crashed"}
             /\ (\A w \in Workers \ {lc_thread} : lc_workers[w] = "unborn")
                => C5_Alive \subseteq {lc_thread}
             /\ ((\A w \in Workers \ {lc_thread} : lc_workers[w] = "unborn")
                    /\ lc_workers[lc_thread] = "alive")
                => C5_Alive = {lc_thread})

\* start() has just been called on a running feature: one worker is alive
\* and no second thread exists
C5_Witness ==
    /\ lc_op.op = "start"
    /\ lc_op.was_running
    /\ lc_running
    /\ lc_workers[1] = "alive"
    /\ lc_workers[2] = "unborn"

\* C6: a worker loop ends only after its stop signal has been set, whatever
\* call into the actuator, the parameter store or the session channel raised
\* during a tick.
C6_WorkerEndsOnlyOnStop ==
    [][\A w \in Workers :
          (lc_workers[w] = "alive" /\ lc_workers'[w] # "alive")
          => lc_stop_event]_vars

\* what holds instead: a worker ends on the stop signal or on an exception
\* that a call outside a try block raised, never on an actuator error
C6_ActuatorErrorsSwallowed ==
    [][\A w \in Workers :
          (lc_workers[w] = "alive" /\ lc_workers'[w] = "exited")
          => lc_stop_event]_vars

(***************************************************************************)
(* Speech buffered while a speech feature had nothing to enforce           *)
(***************************************************************************)
\* the tick of the forbidden-words worker on which the feature becomes active
C12_FwActivates == ~fw_active /\ fw_active'

\* the tick of the word-game worker on which a game becomes selected
C12_WgActivates == wg_active_game = NoGame /\ wg_active_game' # NoGame

\* C12: for Forbidden Words and for the Word Game, the tick on which the
\* feature goes from inactive to active starts its read at the end of the
\* transcript, so nothing said while it was inactive is evaluated and no
\* shock is requested for it
C12_NoStaleTextOnActivation ==
    [][/\ C12_FwActivates =>
              /\ lastRead'[FwTag].from = Len(transcript)
              /\ tick'.fired = <<>>
       /\ C12_WgActivates =>
              /\ lastRead'[WgTag].from = Len(transcript)
              /\ tick'.fired = <<>>]_vars

\* C12 for Forbidden Words alone: the activating tick discards the buffered
\* speech before it reads
C12_ForbiddenDiscardsOnActivation ==
    [][C12_FwActivates =>
           /\ lastRead'[FwTag].from = Len(transcript)
           /\ tick'.text = <<>>
           /\ tick'.fired = <<>>]_vars

\* the forbidden-words feature became active with speech in the transcript
C12_ForbiddenWitness ==
    /\ feat = "forbidden"
    /\ fw_active
    /\ transcript # <<>>
    /\ lastRead[FwTag].from = Len(transcript)
    /\ tick.feat = "forbidden"

\* the word game shocked for a chunk on the tick that selected the game
C12_StaleShock ==
    /\ feat = "wordgame"
    /\ tick.fired # <<>>
    /\ lastRead[WgTag].from = 0
    /\ lastRead[WgTag].to = 1

(***************************************************************************)
(* Session channel: what a filtered poll takes off the queue               *)
(***************************************************************************)
\* the events of `queue` the filter for `feature` does not match
C13_Others(queue, feature) ==
    LET other(evt) == ~matches_feature(evt, feature)
    IN SelectSeq(queue, other)

C13_IsPrefix(s, t) == Len(s) <= Len(t) /\ SubSeq(t, 1, Len(s)) = s

\* C13: a poll never removes from the incoming queue an event that does not
\* match its filter, so a command event for a feature stays queued until a
\* poll filtered for that feature returns it: the events the latest poll did
\* not match are still on the queue, in order
C13_PollKeepsOthers ==
    ch_poll.called =>
        C13_IsPrefix(C13_Others(ch_poll.before, ch_poll.feature),
                     C13_Others(ch_incoming, ch_poll.feature))

\* what poll_events does: it returns the drained events that match and
\* takes every drained event off the queue
C13_PollDrains ==
    ch_poll.called =>
        /\ \A i \in 1..Len(ch_poll.matched) :
               matches_feature(ch_poll.matched[i], ch_poll.feature)
        /\ Len(ch_incoming) <= MaxQueue

\* a poll filtered for focus found a tricks command on the queue and the
\* queue is empty afterwards
C13_Lost ==
    /\ ch_poll.called
    /\ ch_poll.feature = "focus"
    /\ ch_poll.before = <<CommandEvent("A", "tricks")>>
    /\ ch_poll.matched = <<>>
    /\ ch_incoming = <<>>

(***************************************************************************)
(* Session channel: the settings cache                                     *)
(***************************************************************************)
\* C14: the pet's cache of settings is keyed by trainer: a config message of
\* one trainer replaces that trainer's entry and leaves the other trainers'
\* entries as they were, so the cache holds the latest payload of every
\* trainer that has pushed one
C14_KeyedByTrainer ==
    \A t \in Trainers :
        ch_pushed[t].present => ch_pushed[t] \in cached_settings

\* what _on_message does: the cache is the payload of the latest config
\* message, whoever sent it
C14_LatestPayloadOnly ==
    \/ cached_settings = {}
    \/ \E t \in Trainers : cached_settings = {ch_pushed[t]}

\* trainer A's settings were pushed and the cache holds trainer B's only
C14_Overwritten ==
    /\ ch_pushed["A"] = CfgPlain
    /\ ch_pushed["B"] = CfgSlow
    /\ cached_settings = {CfgSlow}

(***************************************************************************)
(* Prompt shutdown of a feature worker                                     *)
(***************************************************************************)
\* worker w has been asked to stop and has since reached its wait
C15_AtWaitAfterStop(w) == tl_stop[w].asked /\ tl_stop[w].waited

\* no start() has cleared the stop signal since worker w was asked to stop
C15_SignalKept(w) == ~tl_stop[w].released

\* C15: after stop() is called on a running feature its worker starts no
\* further evaluation tick once it has reached its next interruptible wait:
\* from that wait it does nothing but leave the loop
C15_NoTickAfterStop ==
    [][\A w \in Workers :
           C15_AtWaitAfterStop(w) => tl_pc'[w] \in {"wait", "exited"}]_vars

\* what the loop guarantees: after stop() is called on a running feature, a
\* worker whose stop signal is not cleared by a later start() before it has
\* observed it starts no further evaluation tick once it has reached its next
\* interruptible wait, which it leaves at once, and when every live worker is
\* scheduled again and again it terminates
C15_PromptShutdown ==
    /\ [][\A w \in Workers :
              C15_AtWaitAfterStop(w) /\ C15_SignalKept(w)
                  => tl_pc'[w] \in {"wait", "exited"}]_vars
    /\ \A w \in Workers :
           (tl_stop[w].asked /\ C15_SignalKept(w))
               ~> (tl_pc[w] = "exited" \/ ~C15_SignalKept(w))

\* a worker that was asked to stop has reached its wait and left the loop,
\* the stop signal still being set
C15_StoppedAtWait ==
    \E w \in Workers :
        /\ tl_pc[w] = "exited"
        /\ C15_AtWaitAfterStop(w)
        /\ C15_SignalKept(w)
        /\ lc_stop_event
        /\ ~lc_running

(***************************************************************************)
(* Feedback actuator: the strength that reaches the hardware               *)
(***************************************************************************)
\* C16: the strength send_shock hands to the hardware is an integer between
\* 0 and 100, whatever strength the caller passed: the 160 Focus computes
\* under strength_scale 2, a float, a negative or an oversized number
C16_HardwareStrengthInRange ==
    (ps_call.op = "send_shock" /\ ps_call.reached) =>
        /\ ps_call.hw_strength % 10 = 0
        /\ ps_call.hw_strength \div 10 \in 0..100
        /\ ps_call.hw_duration >= 0

\* send_shock was called with the 160.0 of Focus and the hardware got 100
C16_Witness ==
    /\ ps_call.op = "send_shock"
    /\ ps_call.strength = Num(10 * fc_strength(0, CfgStrong))
    /\ ps_call.strength = Num(1600)
    /\ ps_call.reached
    /\ ps_call.hw_strength = 1000

(***************************************************************************)
(* Feedback actuator: when the hardware is reached, and failures           *)
(***************************************************************************)
C17_Sends == ps_call.op \in {"send_shock", "send_vibrate"}

\* C17: send_shock and send_vibrate reach the hardware only when the
\* actuator has the pet role and is connected with a shocker, return without
\* a hardware call in every other state, and never raise to their caller for
\* a numeric strength, even when the hardware call fails
C17_ActuatorNeverRaises ==
    C17_Sends =>
        /\ ps_call.reached => ps_call.ready
        /\ ps_call.strength.k = "num" => ~ps_call.raised

\* the part of C17 that holds: the hardware is reached exactly when the
\* actuator is ready and the conversion of the strength did not raise, and
\* send_shock does not raise for any numeric strength
C17_HardwareOnlyWhenReady ==
    C17_Sends =>
        /\ ps_call.reached => ps_call.ready
        /\ (~ps_call.ready /\ ps_call.strength.k = "num") =>
               ~ps_call.reached /\ ~ps_call.raised
        /\ (ps_call.op = "send_shock" /\ ps_call.strength.k = "num") =>
               ~ps_call.raised

\* send_vibrate reached the hardware, whose failure went up to the caller
C17_VibrateRaised ==
    /\ ps_call.op = "send_vibrate"
    /\ ps_call.strength = Num(200)
    /\ ps_call.reached
    /\ ps_call.raised

(***************************************************************************)
(* Transcript store: cursors stay inside the transcript and only advance   *)
(***************************************************************************)
C18_IsPrefix(s, t) == Len(s) <= Len(t) /\ SubSeq(t, 1, Len(s)) = s

\* C18: every tag cursor lies between 0 and the transcript's length, and no
\* operation (an append, get_new_text, reset_tag, get_recent_text_chunks,
\* also with a refused tag) moves a cursor back, removes a cursor, or removes
\* or alters a chunk once it is appended
C18_CursorsMonotone ==
    /\ [](\A t \in TagKeys :
            tag_positions[t] # NoPos =>
                tag_positions[t] \in 0..Len(transcript))
    /\ [][/\ C18_IsPrefix(transcript, transcript')
          /\ \A t \in TagKeys :
                 tag_positions[t] # NoPos =>
                     tag_positions'[t] >= tag_positions[t]]_vars

\* get_recent_text_chunks(3) returned the whole transcript of two chunks
\* while the reader's cursor, reset after the first chunk, stands inside it
C18_Witness ==
    /\ Len(transcript) = 2
    /\ w_call.op = "get_recent_text_chunks"
    /\ w_call.count = 3
    /\ w_call.result = transcript
    /\ wasReset[FwTag]
    /\ tag_positions[FwTag] = 1

(***************************************************************************)
(* Transcript store: the empty tag                                         *)
(***************************************************************************)
\* C19: get_new_text and reset_tag called with an empty tag raise and leave
\* the transcript and every cursor as they were; the empty tag never gets a
\* cursor
C19_EmptyTagRefused ==
    /\ [](/\ tag_positions[EmptyTag] = NoPos
          /\ w_call.raised =>
                 /\ w_call.op \in {"get_new_text", "reset_tag"}
                 /\ w_call.tag = EmptyTag)
    /\ [][(w_call'.raised /\ w_call' # w_call) =>
              /\ transcript' = transcript
              /\ tag_positions' = tag_positions]_vars

\* reset_tag("") was refused with a chunk on the transcript and the reader's
\* cursor behind it
C19_Witness ==
    /\ w_call = RaisedCall("reset_tag", EmptyTag)
    /\ Len(transcript) = 1
    /\ tag_positions[FwTag] = 0
    /\ tag_positions[EmptyTag] = NoPos

(***************************************************************************)
(* Strength range                                                          *)
(***************************************************************************)
\* the clamped strength_scale of the configuration, in tenths
C20_Scales ==
    IF sc_config = NotADict THEN {10}
    ELSE C9_Expected(sc_config["strength_scale"])

\* C20: for every configuration and non-negative base strengths, also a
\* base minimum above the base maximum and a scale of zero, the range form of
\* the strength resolver returns (min, max) with 0 <= min <= max,
\* min = base_min * strength_scale and max = max(min, base_max *
\* strength_scale), strength_scale being the clamped factor
C20_StrengthRange ==
    sr_result.called =>
        /\ 0 <= sr_result.shock_min
        /\ sr_result.shock_min <= sr_result.shock_max
        /\ \E scale \in C20_Scales :
               /\ sr_result.shock_min = sr_result.base_min * scale
               /\ sr_result.shock_max =
                      Max2(sr_result.shock_min, sr_result.base_max * scale)

\* a base minimum of 50 above a base maximum of 10 was resolved under a
\* strength_scale of 2.5: both ends are 100.0
C20_Witness ==
    /\ sr_result.called
    /\ sc_config # NotADict
    /\ sc_config["strength_scale"] = Num(25)
    /\ sr_result.base_min = 50
    /\ sr_result.base_max = 10
    /\ sr_result.shock_min = 1000
    /\ sr_result.shock_max = 1000

(***************************************************************************)
(* Configuration snapshots                                                 *)
(***************************************************************************)
C21_Held == {sn_held[a] : a \in Accessors} \ {NoObject}

\* C21: a caller that mutates the snapshot it got from latest_settings or
\* get_session_details never changes the stored configuration (the stored
\* configuration changes only when a config message rebinds it), and a config
\* push never changes the mapping a caller holds
C21_SnapshotIsolated ==
    [][/\ sn_stored' = sn_stored
           => DeepValue(sn_stored)' = DeepValue(sn_stored)
       /\ sn_stored' # sn_stored
           => \A d \in C21_Held : DeepValue(d)' = DeepValue(d)]_vars

\* what the code guarantees: the keys of the stored mapping and the objects
\* they are bound to change only by a config message, a snapshot is an object
\* of its own, and a config message changes no mapping a caller holds
C21_ShallowCopy ==
    /\ [](\A d \in C21_Held : d # sn_stored)
    /\ [][/\ sn_stored' = sn_stored
              => sn_dicts'[sn_stored] = sn_dicts[sn_stored]
          /\ sn_stored' # sn_stored
              => \A d \in C21_Held : DeepValue(d)' = DeepValue(d)]_vars

\* a caller appended "b" to the names of its snapshot and the stored
\* configuration, pushed with the names ["a"], now reads ["a", "b"]
C21_StoredNamesChanged ==
    /\ sn_held["latest_settings"] # NoObject
    /\ sn_dicts[sn_held["latest_settings"]].names = sn_dicts[sn_stored].names
    /\ DeepValue(sn_stored).names = <<"a", "b">>

(***************************************************************************)
(* Text normalisation                                                      *)
(***************************************************************************)
\* the shared rule, character by character: lowercase, and a space for
\* whatever is neither alphanumeric nor whitespace
C22_Mapped(text) ==
    [i \in 1..Len(text) |->
        IF IsAlnum(Lower(text[i])) THEN Lower(text[i]) ELSE " "]

\* the positions that survive: a character that is no space, and the first
\* space after such a character unless only spaces follow it
C22_Survives(m, i) ==
    \/ m[i] # " "
    \/ /\ i > 1
       /\ m[i - 1] # " "
       /\ \E j \in (i + 1)..Len(m) : m[j] # " "

RECURSIVE C22_Keep(_, _)
C22_Keep(m, i) ==
    IF i > Len(m) THEN <<>>
    ELSE (IF C22_Survives(m, i) THEN <<m[i]>> ELSE <<>>) \o C22_Keep(m, i + 1)

C22_SharedRule(text) == C22_Keep(C22_Mapped(text), 1)

\* C22: every feature's text normaliser returns, for every input string,
\* what the shared rule gives (lowercase; each non-alphanumeric,
\* non-whitespace character becomes a space; whitespace runs collapse to one
\* space; leading and trailing space trimmed)
C22_AllFollowSharedRule ==
    \A n \in nm_called : nm_result[n] = C22_SharedRule(nm_text)

\* what the code guarantees: Feature.normalise_text and
\* ForbiddenWordsFeature._normalise follow the shared rule, and pet Tricks
\* follows it on every text without an underscore
C22_AllButUnderscore ==
    \A n \in nm_called :
        (n # "tricks" \/ \A i \in 1..Len(nm_text) : nm_text[i] # "_")
            => nm_result[n] = C22_SharedRule(nm_text)

\* "a_b" normalised by pet Tricks and by Forbidden Words: "a_b" and "a b"
C22_UnderscoreKept ==
    /\ nm_text = <<"a", "_", "b">>
    /\ nm_called = Normalisers
    /\ nm_result["tricks"] = <<"a", "_", "b">>
    /\ nm_result["forbidden"] = <<"a", " ", "b">>
    /\ nm_result["feature"] = <<"a", " ", "b">>

(***************************************************************************)
(* Missing dependencies at start-up                                        *)
(***************************************************************************)
\* start() of the speech interface was called while it was stopped and found
\* a dependency missing or failing
C23_WhisperFailed ==
    /\ wh_call.op = "start"
    /\ ~wh_call.was_running
    /\ wh_call.dep # "ok"

C23_OscFailed ==
    /\ osc_call.op = "start"
    /\ ~osc_call.was_running
    /\ osc_call.dep # "ok"

\* start() of the actuator found no credentials or a failed verification
C23_PiShockFailed == ps_call.op = "start" /\ ~ps_call.ready

\* the operations of a component that did not come up are inert: the speech
\* interface appends nothing and get_new_text returns "", the OSC interface
\* receives nothing, the actuator makes no hardware call
C23_InertNow ==
    /\ C23_WhisperFailed => ~wh_thread
    /\ ~wh_thread /\ transcript = <<>> => lastRead[FwTag].text = <<>>
    /\ C23_OscFailed => ~osc_server
    /\ C23_PiShockFailed => ~ps_ready
    /\ ps_call.op = "send_shock" /\ ~ps_call.ready => ~ps_call.reached

C23_InertSteps ==
    [][/\ ~wh_thread => transcript' = transcript
       /\ ~osc_server => param_values' = param_values]_vars

\* C23: when a required external dependency is missing or fails to
\* initialise, start() of the owning component returns without raising, the
\* component then reports not running / not connected, and its operations
\* are inert
C23_DegradesToInert ==
    /\ [](/\ C23_WhisperFailed => ~wh_call.raised /\ ~wh_is_running
          /\ C23_OscFailed => ~osc_call.raised /\ ~osc_is_running
          /\ C23_PiShockFailed =>
                 ~ps_call.raised /\ ~(ps_enabled /\ ps_connected)
          /\ C23_InertNow)
    /\ C23_InertSteps

\* what the code guarantees: the OSC interface and the actuator degrade as
\* described; the speech interface is inert too, but with a library missing
\* it reports running, and a model that fails to load makes start() raise
C23_DegradesOfCode ==
    /\ [](/\ C23_WhisperFailed =>
                 /\ wh_call.raised <=> wh_call.dep = "model_fails"
                 /\ wh_is_running <=> wh_call.dep # "model_fails"
          /\ C23_OscFailed => ~osc_call.raised /\ ~osc_is_running
          /\ C23_PiShockFailed =>
                 ~ps_call.raised /\ ~(ps_enabled /\ ps_connected)
          /\ C23_InertNow)
    /\ C23_InertSteps

\* sounddevice is missing and the speech interface reports running with no
\* worker behind it
C23_WhisperReportsRunning ==
    /\ C23_WhisperFailed
    /\ wh_call.dep = "no_sounddevice"
    /\ wh_is_running
    /\ ~wh_thread
    /\ lastRead[FwTag].first

(***************************************************************************)
(* Trainer scolding                                                        *)
(***************************************************************************)
\* the phrases that apply to pet p: the detector's own list when it has one,
\* else the normalised, non-empty scolding words of p's configuration
C24_Applicable(p) ==
    IF ts_phrases # <<>> THEN {ts_phrases[i] : i \in 1..Len(ts_phrases)}
    ELSE {scold_normalise(ts_configs[p].scolding_words[i]) :
              i \in 1..Len(ts_configs[p].scolding_words)} \ {<<>>}

C24_Due(p) ==
    /\ p # ""
    /\ ts_configs[p].present
    /\ ts_configs[p].feature_scolding
    /\ \E phrase \in C24_Applicable(p) : Contains(ts_tick.text, phrase)

C24_SentTo(p) ==
    {i \in 1..Len(ts_tick.sent) : ts_tick.sent[i].target_client = p}

\* C24: for each transcript read on the trainer, a command with meta
\* {feature: scolding, target_client: P} is sent for pet P if and only if P's
\* configuration enables feature_scolding and some scolding phrase applicable
\* to P is a substring of the normalised text; at most one command per pet
\* per read, none to a pet whose configuration disables the feature
C24_ScoldIffMatch ==
    ts_tick.read =>
        /\ \A p \in PetClients :
               Cardinality(C24_SentTo(p)) = IF C24_Due(p) THEN 1 ELSE 0
        /\ \A i \in 1..Len(ts_tick.sent) :
               /\ ts_tick.sent[i].feature = "scolding"
               /\ ts_tick.sent[i].phrase = ts_tick.text

\* "A!b" was read as "a b": P, whose word "A" applies, got one command, Q,
\* whose configuration disables the feature, got none
C24_Witness ==
    /\ ts_tick.read
    /\ ts_tick.text = <<"a", " ", "b">>
    /\ ts_phrases = <<>>
    /\ ts_configs["P"] = PetConfig(TRUE, << <<"!">>, <<"A">> >>)
    /\ ts_configs["Q"] = PetConfig(FALSE, << <<"b">> >>)
    /\ ts_tick.sent = <<ScoldCommand(<<"a", " ", "b">>, "P")>>

(***************************************************************************)
(* Pruning of the per-trainer state                                        *)
(***************************************************************************)
C25_Active == ActiveTrainerConfigs("feature_tricks")

\* the actuator calls the tick of this step made for trainer t
C25_Requests(t) ==
    {i \in 1..Len(tick'.fired) : tick'.fired[i].trainer = t}

C25_Step ==
    tick'.feat = "tricks" =>
        \A t \in Trainers :
            /\ tk_state'[t].present => t \in C25_Active
            /\ t \notin C25_Active =>
                   /\ tk_state'[t] = NoTrick
                   /\ C25_Requests(t) = {}
            /\ (C2_Shocks(t) > 0 /\ ~tk_state[t].pending) =>
                   /\ t \in C25_Active
                   /\ C2_Timeout(latest_settings[t]) = 0
            /\ (t \in C25_Active /\ ~tk_state[t].present) =>
                   /\ tk_state'[t].present
                   /\ tk_state'[t].pending =>
                          tk_state'[t].deadline
                              = now + C2_Timeout(latest_settings[t])
                   /\ tk_state'[t].cooldown_until # 0 =>
                          /\ C2_Shocks(t) = 1
                          /\ tk_state'[t].cooldown_until
                                 = now + C2_Cooldown(latest_settings[t])

\* C25: at the end of every tick of pet Tricks the trainers holding a state
\* are among those whose current configuration enables the feature; the
\* pending command and the cooldown of a trainer whose configuration
\* disappeared are discarded, so that no shock comes of the pruned command
\* later and a trainer that appears again starts idle with cooldown 0
C25_PrunedEveryTick ==
    /\ [][C25_Step]_vars
    /\ [](\A t \in Trainers : ~tk_state[t].present => tk_state[t] = NoTrick)

\* the tick has dropped the state of a trainer that had a command pending
\* and a cooldown running, and the trainer holds no state
C25_Witness ==
    /\ tick.feat = "tricks"
    /\ \E r \in tick.pruned :
          /\ r.pending
          /\ r.cooldown_until > now
          /\ tk_state[r.trainer] = NoTrick
          /\ r.trainer \notin ActiveTrainerConfigs("feature_tricks")

(***************************************************************************)
(* Tricks: one pending command per trainer                                 *)
(***************************************************************************)
\* the calls of the given kind the tick of this step made for trainer t
C26_Calls(t, kind) ==
    Cardinality({i \in 1..Len(tick'.fired) :
                    tick'.fired[i].kind = kind /\ tick'.fired[i].trainer = t})

C26_Step ==
    (tick'.feat = "tricks" /\ tick'.speaker \in Trainers) =>
        LET t == tick'.speaker
        IN (/\ tk_state[t].pending
            /\ t \in ActiveTrainerConfigs("feature_tricks")
            /\ tick'.phrase # NoEvent)
           => /\ tk_state'[t].pending => /\ tk_state'[t] = tk_state[t]
                                         /\ C26_Calls(t, "vibrate") = 0
                                         /\ C26_Calls(t, "shock") = 0
              /\ ~tk_state'[t].pending =>
                     \/ /\ t \in tick'.done
                        /\ C26_Calls(t, "vibrate") = 2
                        /\ C26_Calls(t, "shock") = 0
                     \/ /\ t \notin tick'.done
                        /\ now >= tk_state[t].deadline
                        /\ C26_Calls(t, "vibrate") = 0
                        /\ C26_Calls(t, "shock") = 1

\* C26: each trainer has one slot for a pending command, and while trainer
\* T's command is pending a further command event from T neither replaces
\* nor extends it: name and deadline stay as they are until the command
\* succeeds or times out, and the event starts nothing (no start signal, and
\* no command pending after the one that ended in the same tick)
C26_OnePendingCommand == [][C26_Step]_vars

\* trainer A has "paw" pending with its deadline ahead, and the tick polled
\* an event naming another command from A
C26_Witness ==
    /\ tick.feat = "tricks"
    /\ tick.speaker = "A"
    /\ tick.phrase = "sit"
    /\ tk_state["A"].pending
    /\ tk_state["A"].name = "paw"
    /\ now < tk_state["A"].deadline
    /\ tick.fired = <<>>

(***************************************************************************)
(* Tricks: a completed command                                             *)
(***************************************************************************)
\* the pose predicate of `command` on the five floats and booleans the tick
\* read, as section 8 of the pose table has it for "paw"
C29_PoseTrue(command, pose) ==
    /\ command = "paw"
    /\ pose.paw.k = "bool"
    /\ pose.paw.v = 1

C29_Step ==
    (tick'.feat = "tricks" /\ tick'.speaker \in Trainers) =>
        \A t \in Trainers :
            (/\ tk_state[t].pending
             /\ t \in ActiveTrainerConfigs("feature_tricks")
             /\ C29_PoseTrue(tk_state[t].name, tick'.pose))
            => /\ C26_Calls(t, "vibrate") = 2
               /\ C26_Calls(t, "shock") = 0
               /\ \A i \in 1..Len(tick'.fired) :
                      tick'.fired[i].trainer = t
                          => tick'.fired[i] = VibrateRequest(t, 10, 2)
               /\ tk_state'[t].present
               /\ ~tk_state'[t].pending
               /\ tk_state'[t].cooldown_until = tk_state[t].cooldown_until
               /\ t \in tick'.done

C30_NamesOf(phrase) ==
    {n \in CommandNames :
        \/ tk_normalise_text(phrase) = n
        \/ tk_normalise_text(phrase) \in command_phrases[n]}

\* the state trainer t has when the loop body starts
C30_Before(t) ==
    IF tk_state[t].present THEN tk_state[t] ELSE NewTrickState

\* the tick of this step polled an event of an active trainer with no
\* command pending
C30_Polled ==
    /\ tick'.feat = "tricks"
    /\ tick'.speaker \in Trainers
    /\ tick'.phrase # NoEvent
    /\ tick'.speaker \in ActiveTrainerConfigs("feature_tricks")
    /\ ~tk_state[tick'.speaker].pending

\* the command n was started for the speaker: the start signal was sent, and
\* the command is pending unless the same tick ended it
C30_Started(n) ==
    LET t == tick'.speaker
    IN /\ Len(tick'.fired) >= 1
       /\ tick'.fired[1] = VibrateRequest(t, 10, 2)
       /\ \/ tk_state'[t].pending /\ tk_state'[t].name = n
          \/ t \in tick'.done
          \/ C26_Calls(t, "shock") = 1

C30_Ignored ==
    /\ tk_state'[tick'.speaker] = C30_Before(tick'.speaker)
    /\ tick'.fired = <<>>

\* C30: for a command event of an active trainer with nothing pending, the
\* command named N is started whenever the phrase is N or a phrase the
\* table lists for N, and the event is ignored with the state unchanged for
\* any other phrase
C30_StartsForTablePhrases ==
    [][C30_Polled =>
          /\ \A n \in C30_NamesOf(tick'.phrase) : C30_Started(n)
          /\ C30_NamesOf(tick'.phrase) = {} => C30_Ignored]_vars

\* what the code does: only a phrase that normalises to a key of the table
\* starts a command; the listed phrases are never looked at
C30_StartsForNamesOnly ==
    [][C30_Polled =>
          IF tick'.phrase # ""
                 /\ tk_normalise_text(tick'.phrase) \in CommandNames
          THEN C30_Started(tk_normalise_text(tick'.phrase))
          ELSE C30_Ignored]_vars

\* an event with the listed phrase "lie down" was polled and nothing is
\* pending
C30_SynonymIgnored ==
    /\ tick.feat = "tricks"
    /\ tick.speaker = "A"
    /\ tick.phrase = "lie down"
    /\ "A" \in ActiveTrainerConfigs("feature_tricks")
    /\ tk_state["A"] = NewTrickState
    /\ tick.fired = <<>>

\* an event whose phrase is a key of the table in another case started the
\* command
C30_NameStarted ==
    /\ tick.feat = "tricks"
    /\ tick.phrase = "Lay_Down"
    /\ tk_state["A"].pending
    /\ tk_state["A"].name = "lay_down"

(***************************************************************************)
(* Proximity: the summon command                                           *)
(***************************************************************************)
\* the shocks with the given reason the tick of this step asked for on
\* behalf of trainer t
C27_Shocks(t, reason) ==
    Cardinality({i \in 1..Len(tick'.fired) :
                    /\ tick'.fired[i].trainer = t
                    /\ tick'.fired[i].reason = reason})

\* in tenths of a second
C27_Timeout(config) ==
    PxBaseCommandTimeout * scaling_from_config(config.scales)["delay_scale"].v

C27_Cooldown(config) ==
    PxBaseCooldown * scaling_from_config(config.scales)["cooldown_scale"].v

\* how the tick of this step leaves a summon of trainer t that was pending or
\* has just arrived, measured against the deadline d
C27_Outcome(t, d) ==
    /\ tick'.proximity >= PxCommandTarget
       => /\ ~px_state'[t].pending
          /\ t \in tick'.done
          /\ \A i \in 1..Len(tick'.fired) : tick'.fired[i].trainer # t
    /\ (/\ tick'.proximity < PxCommandTarget
        /\ now * 10 >= d
        /\ now * 10 >= px_state[t].cooldown_until)
       => /\ ~px_state'[t].pending
          /\ t \notin tick'.done
          /\ C27_Shocks(t, "summon command missed") = 1
          /\ px_state'[t].cooldown_until
                 = now * 10 + C27_Cooldown(latest_settings[t])
    /\ (/\ tick'.proximity < PxCommandTarget
        /\ (now * 10 < d \/ now * 10 < px_state[t].cooldown_until))
       => /\ px_state'[t].pending
          /\ t \notin tick'.done
          /\ C27_Shocks(t, "summon command missed") = 0

C27_Step ==
    tick'.feat = "proximity" =>
        \A t \in ActiveTrainerConfigs("feature_proximity") :
            /\ (t \in tick'.summons /\ ~px_state[t].pending)
               => /\ C27_Outcome(t, now * 10 + C27_Timeout(latest_settings[t]))
                  /\ px_state'[t].pending
                         => px_state'[t].pending_command_deadline
                                = now * 10 + C27_Timeout(latest_settings[t])
            /\ px_state[t].pending
               => C27_Outcome(t, px_state[t].pending_command_deadline)
            /\ (~px_state[t].pending /\ t \notin tick'.summons)
               => /\ ~px_state'[t].pending
                  /\ C27_Shocks(t, "summon command missed") = 0

\* what the code does with a summon that arrives while one is pending: the
\* deadline is set again
C27_StepOfCode ==
    tick'.feat = "proximity" =>
        \A t \in ActiveTrainerConfigs("feature_proximity") :
            /\ t \in tick'.summons
               => /\ C27_Outcome(t, now * 10 + C27_Timeout(latest_settings[t]))
                  /\ px_state'[t].pending
                         => px_state'[t].pending_command_deadline
                                = now * 10 + C27_Timeout(latest_settings[t])
            /\ (px_state[t].pending /\ t \notin tick'.summons)
               => /\ C27_Outcome(t, px_state[t].pending_command_deadline)
                  /\ px_state'[t].pending => px_state'[t] = 
                         [px_state[t] EXCEPT
                             !.breach = px_state'[t].breach,
                             !.breach_started_at =
                                 px_state'[t].breach_started_at,
                             !.near_seen = px_state'[t].near_seen,
                             !.cooldown_until = px_state'[t].cooldown_until,
                             !.last_sample_log =
                                 px_state'[t].last_sample_log]
            /\ (~px_state[t].pending /\ t \notin tick'.summons)
               => /\ ~px_state'[t].pending
                  /\ C27_Shocks(t, "summon command missed") = 0

\* a pending summon whose deadline and cooldown end within the horizon
C27_Due(t) ==
    /\ px_state[t].pending
    /\ px_state[t].pending_command_deadline <= MaxTime * 10
    /\ px_state[t].cooldown_until <= MaxTime * 10

\* C27: a summon event of an active trainer makes the state pending with
\* deadline now + scaled timeout; a pending summon ends in exactly one of two
\* ways, with no shock when the proximity value reaches 1.0, or with one
\* "summon command missed" shock and the cooldown once its deadline has
\* passed; and a pending summon is always ended eventually (unless a
\* cooldown outlasts the horizon)
C27_SummonResolves ==
    /\ [][C27_Step]_vars
    /\ \A t \in Summoners :
          C27_Due(t) ~> (\/ ~px_state[t].pending
                         \/ px_state[t].cooldown_until > MaxTime * 10)

\* with the deadline that is current after the events of the tick, and up
\* to a later summon
C27_SummonOfCode ==
    /\ [][C27_StepOfCode]_vars
    /\ \A t \in Summoners :
          C27_Due(t) ~> (\/ ~px_state[t].pending
                         \/ px_state[t].cooldown_until > MaxTime * 10
                         \/ px_state[t].pending_command_deadline
                                > MaxTime * 10)

\* a summon arrived at or after the deadline of the pending one: no shock,
\* and the summon is pending with a new deadline
C27_DeadlineMoved ==
    /\ tick.feat = "proximity"
    /\ "B" \in tick.rearmed
    /\ now * 10 >= PxBaseCommandTimeout * 10
    /\ px_state["B"].pending
    /\ px_state["B"].pending_command_deadline > now * 10
    /\ px_state["B"].cooldown_until = 0
    /\ tick.fired = <<>>

(***************************************************************************)
(* Proximity: the breach timer                                             *)
(***************************************************************************)
\* in hundredths of a second
C28_BreachDuration(config) ==
    PxBaseBreachDuration * scaling_from_config(config.scales)["delay_scale"].v

\* the tick of this step sent a "too far from trainer" shock for trainer t
C28_Fired(t) == C27_Shocks(t, "too far from trainer") > 0

\* the cooldown of trainer t as the breach test of this step's tick sees it
C28_InCooldown(t) ==
    IF C27_Shocks(t, "summon command missed") > 0 
    THEN C27_Cooldown(latest_settings[t]) > 0
    ELSE now * 10 < px_state[t].cooldown_until

C28_ShockIsSustained(t) ==
    C28_Fired(t) =>
        /\ C27_Shocks(t, "too far from trainer") = 1
        /\ px_state[t].breach
        /\ tick'.proximity < PxThreshold
        /\ (now - px_state[t].breach_started_at) * 100
               >= C28_BreachDuration(latest_settings[t])

\* C28: a "too far from trainer" shock fires for trainer T only if the
\* proximity value was below the threshold on every tick since the breach
\* timer started and that span is at least the scaled breach duration; any
\* tick that reads a value at or above the threshold clears the breach
\* timer, a tick inside T's cooldown included
C28_BreachTimer ==
    [][tick'.feat = "proximity" =>
          \A t \in ActiveTrainerConfigs("feature_proximity") :
              /\ C28_ShockIsSustained(t)
              /\ C28_Fired(t) => ~px_state[t].near_seen
              /\ tick'.proximity >= PxThreshold => ~px_state'[t].breach]_vars

\* what the code does: the breach timer is read and written only outside
\* the cooldown
C28_BreachTimerOfCode ==
    [][tick'.feat = "proximity" =>
          \A t \in ActiveTrainerConfigs("feature_proximity") :
              /\ C28_ShockIsSustained(t)
              /\ C28_Fired(t) => ~C28_InCooldown(t)
              /\ (tick'.proximity >= PxThreshold /\ ~C28_InCooldown(t))
                     => ~px_state'[t].breach
              /\ (C28_InCooldown(t) /\ px_state[t].present)
                     => /\ px_state'[t].breach = px_state[t].breach
                        /\ px_state'[t].breach_started_at
                               = px_state[t].breach_started_at]_vars

\* a "too far from trainer" shock has fired on a breach timer that was
\* running while a tick read a value at or above the threshold
C28_StaleBreachShock ==
    /\ tick.feat = "proximity"
    /\ tick.stale # {}
    /\ \E i \in 1..Len(tick.fired) :
          /\ tick.fired[i].reason = "too far from trainer"
          /\ tick.fired[i].trainer \in tick.stale

(***************************************************************************)
(* Forbidden words: one shock per tick                                     *)
(***************************************************************************)
\* the cooldown of trainer t in a state map (a trainer without a state has
\* the cooldown 0.0 a new _TrainerForbiddenState starts with)
C31_Cooldown(state, t) == IF state[t] = NoState THEN 0 ELSE state[t]

\* trainer t is not skipped by a tick that read `text`: it has phrases, its
\* cooldown has expired and one of its phrases is in the text
C31_Eligible(t, text) ==
    /\ normalise_phrases(latest_settings[t].forbidden_words) # <<>>
    /\ now >= C31_Cooldown(fw_state, t)
    /\ C7_Matches(t, text)

\* the positions of `order` that hold a trainer the tick does not skip
C31_Hits(order, text) ==
    {i \in 1..Len(order) : C31_Eligible(order[i], text)}

C31_First(order, text) ==
    order[CHOOSE i \in C31_Hits(order, text) :
              \A j \in C31_Hits(order, text) : i <= j]

C31_Step(order) ==
    forbidden_tick(order) =>
        LET text == tick'.text
            active == ActiveTrainerConfigs("feature_forbidden_words")
        IN /\ Len(tick'.fired) <= 1
           /\ IF text # <<>> /\ C31_Hits(order, text) # {}
              THEN LET t == C31_First(order, text)
                   IN /\ Len(tick'.fired) = 1
                      /\ tick'.fired[1].kind = "shock"
                      /\ tick'.fired[1].trainer = t
                      /\ fw_state'[t] = now + C1_Resolved(FwBaseCooldown,
                                                         latest_settings[t])
                      /\ \A u \in active \ {t} :
                            C31_Cooldown(fw_state', u)
                                = C31_Cooldown(fw_state, u)
              ELSE /\ tick'.fired = <<>>
                   /\ \A u \in active :
                         C31_Cooldown(fw_state', u) = C31_Cooldown(fw_state, u)

\* C31: a Forbidden Words tick sends at most one shock across all trainers:
\* the first trainer in iteration order that is out of cooldown and has a
\* matching phrase fires and arms only its own cooldown; trainers in
\* cooldown or with no phrases are skipped, and every other trainer's
\* cooldown is left unchanged
C31_OneShockPerTick == [][\A order \in AllOrders : C31_Step(order)]_vars

\* both trainers were out of cooldown with a phrase in the text: one shock
\* was sent, for one of them, and the other's cooldown is not armed
C31_Witness ==
    /\ tick.feat = "forbidden"
    /\ latest_settings["A"] = CfgPlain
    /\ latest_settings["B"] = CfgSlow
    /\ Contains(tick.text, <<"a", " ", "b">>)
    /\ Contains(tick.text, <<"a", " ", "a">>)
    /\ Len(tick.fired) = 1
    /\ tick.fired[1].trainer = "B"
    /\ fw_state["B"] > now
    /\ fw_state["A"] <= 0

(***************************************************************************)
(* Word game: when a shock is sent                                         *)
(***************************************************************************)
\* some cached configuration selects a game that has a handler
C32_SupportedGameSelected ==
    \E t \in CachedTrainers :
        normalise_game_name(latest_settings[t].word_game) = "pronouns"

\* no cached configuration selects a game
C32_NoGameSelected ==
    \A t \in CachedTrainers :
        normalise_game_name(latest_settings[t].word_game)
            \in {"", "none", "off", "disabled"}

\* the letters and apostrophes of a token, in lower case
C32_Word(token) ==
    LET kept == SelectSeq(token, wg_keeps)
    IN [i \in 1..Len(kept) |-> Lower(kept[i])]

\* a whitespace-separated token of the text is a first-person pronoun, with
\* or without its apostrophe
C32_PronounToken(text) ==
    \E token \in {SplitWords(text, <<>>)[i] :
                      i \in 1..Len(SplitWords(text, <<>>))} :
        \E pronoun \in wg_disallowed_tokens :
            \/ C32_Word(token) = pronoun
            \/ SelectSeq(C32_Word(token), wg_not_apostrophe) = pronoun

\* the chunks get_new_text handed out in this step
C32_Read == delivered'[WgTag] # delivered[WgTag]

\* the step is one iteration of the worker's loop
C32_Tick == \E order \in AllOrders : wordgame_tick(order)

C32_Step ==
    /\ C32_Tick =>
          /\ Len(tick'.fired) <= 1
          /\ tick'.fired # <<>> =>
                /\ C32_SupportedGameSelected
                /\ C32_Read
                /\ C32_PronounToken(tick'.text)
                /\ now >= wg_cooldown_until
                /\ wg_cooldown_until' = now + WgCooldownSeconds
                /\ tick'.fired[1]
                       = ShockRequest("pronouns", WgShockStrength,
                                      WgShockDuration)
          /\ tick'.fired = <<>> => wg_cooldown_until' = wg_cooldown_until
          /\ C32_NoGameSelected =>
                /\ tick'.fired = <<>>
                /\ UNCHANGED wvars
    /\ ~C32_Tick => wg_cooldown_until' = wg_cooldown_until

\* C32: Word Game sends a shock only on a tick where some trainer's
\* configuration selects the supported game "pronouns" and the newly read
\* text contains a first-person pronoun as a whole token, never as a
\* substring of another word, and at most once per 5-second cooldown (a
\* shock needs the cooldown expired and arms it for 5 s, and nothing else
\* moves it); on a tick where no trainer has a game selected no shock is
\* sent and no transcript text is read
C32_ShockOnlyForPronounToken == [][C32_Step]_vars

\* a shock was sent for the token "I'm!" 5 s or more into the run, the
\* text read in the same tick also holding "aim"; the cooldown is armed
C32_Witness ==
    /\ tick.feat = "wordgame"
    /\ tick.fired # <<>>
    /\ Contains(tick.text, <<"I", "'", "m", "!">>)
    /\ Contains(tick.text, <<"a", "i", "m">>)
    /\ now >= WgCooldownSeconds
    /\ wg_cooldown_until = now + WgCooldownSeconds

\* a tick with a supported game selected read "aim" and sent nothing
C32_WitnessSubstring ==
    /\ tick.feat = "wordgame"
    /\ tick.text = <<"a", "i", "m">>
    /\ wg_active_game = "pronouns"
    /\ tick.fired = <<>>
    /\ wg_cooldown_until <= now

(***************************************************************************)
(* Pull: which target is shocked for                                       *)
(***************************************************************************)
\* the <base>_IsGrabbed value is true: True, a number other than 0, or a
\* string that says so
C33_Grabbed(raw) ==
    \/ raw.k \in {"bool", "num"} /\ raw.v # 0
    \/ raw.k = "str" /\ raw.s \in {"1", " YES ", "On", "maybe"}

\* the <base>_Stretch value is at least 0.5
C33_Stretched(raw) ==
    \/ raw.k = "num" /\ 2 * raw.v >= StretchDen
    \/ raw.k = "bool" /\ raw.v # 0
    \/ raw.k = "str" /\ raw.s = "1"

\* the positions of the targets that are grabbed and stretched
C33_Pulled(readings) ==
    {i \in 1..Len(PullTargets) :
        C33_Grabbed(readings[i].grab) /\ C33_Stretched(readings[i].stretch)}

C33_Step(readings) ==
    (readings # <<>> /\ pull_tick(readings)) =>
        /\ Len(tick'.fired) <= 1
        /\ tick'.fired # <<>>
              <=> now >= pull_cooldown_until /\ C33_Pulled(readings) # {}
        /\ tick'.fired # <<>> =>
              /\ tick'.fired[1].kind = "shock"
              /\ \E i \in C33_Pulled(readings) :
                    /\ \A j \in C33_Pulled(readings) : i <= j
                    /\ tick'.target = PullTargets[i]
              /\ pull_cooldown_until' = now + PullCooldownSeconds
        /\ tick'.fired = <<>> => pull_cooldown_until' = pull_cooldown_until

\* C33: on every Pull tick outside cooldown a shock is sent if and only if
\* some target among LeftEar, RightEar, Tail has its IsGrabbed parameter true
\* and its Stretch parameter >= 0.5; exactly one shock is sent, for the first
\* such target in that fixed order, and the cooldown is armed only on a tick
\* where a shock was sent (a tick inside the cooldown sends nothing)
C33_FirstPulledTarget == [][C33_Step(tick'.readings)]_vars

\* the shock was for the tail: the left ear was stretched but not grabbed and
\* the right ear was not pulled, and the cooldown is armed
C33_Witness ==
    /\ tick.feat = "pull"
    /\ Len(tick.fired) = 1
    /\ tick.target = "Tail"
    /\ C33_Stretched(tick.readings[1].stretch)
    /\ ~C33_Grabbed(tick.readings[1].grab)
    /\ pull_cooldown_until = now + PullCooldownSeconds
    /\ now >= PullCooldownSeconds

(***************************************************************************)
(* Depth: the shock for a depth at or above the threshold                  *)
(***************************************************************************)
\* some trainer's settings enable the Depth feature: the key the feature is
\* registered under, or the key the feature looks up
C34_Enabled ==
    \E t \in Trainers :
        /\ latest_settings[t].present
        /\ latest_settings[t].flags \cap {"feature_depth", "depth"} # {}

\* the value of Trainer/PenDepth is at or above 0.5
C34_Deep(pen_depth) == pen_depth.k = "num" /\ 2 * pen_depth.v >= OscOne

\* 20 + (depth - 0.5) / 0.5 * 20: linear in the excess, within [20, 40]
C34_Strength(pen_depth) == 20 + ((2 * pen_depth.v - OscOne) * 20) \div OscOne

C34_Step(w, pen_depth) ==
    (/\ depth_tick(w, pen_depth)
     /\ C34_Enabled
     /\ C34_Deep(pen_depth)
     /\ now >= dp_cooldown_until) =>
        /\ Len(tick'.fired) = 1
        /\ tick'.fired[1].kind = "shock"
        /\ tick'.fired[1].strength = C34_Strength(pen_depth)
        /\ tick'.fired[1].strength \in 20..40
        /\ dp_cooldown_until' > now
        /\ lc_workers'[w] = "alive"

\* C34: when some trainer's configuration enables the Depth feature and the
\* parameter Trainer/PenDepth is at or above the 0.5 threshold outside the
\* cooldown, Depth sends one shock whose strength grows linearly with the
\* excess over the threshold and lies in [20, 40], arms its cooldown, and
\* keeps polling on later ticks
C34_DepthShock ==
    [][\A w \in Workers : tick'.readings # <<>> =>
           C34_Step(w, tick'.readings[1])]_vars

\* what the feature does: no tick of Depth sends anything or arms the
\* cooldown; with only the key feature_depth in the settings the worker
\* idles, and with the key "depth" present the tick ends the worker thread
C34_DepthOfCode ==
    [][\A w \in Workers : \A pen_depth \in DepthReadings :
           depth_tick(w, pen_depth) =>
               /\ tick'.fired = <<>>
               /\ dp_cooldown_until' = 0
               /\ lc_workers'[w] =
                      IF ActiveTrainerConfigs("depth") = {}
                      THEN "alive" ELSE "crashed"]_vars

\* the Depth box is ticked for both trainers, Trainer/PenDepth is 1.0, the
\* worker is alive and the tick sent nothing
C34_DepthIdles ==
    /\ tick.feat = "depth"
    /\ tick.readings = <<OscNum(OscOne)>>
    /\ \A t \in Trainers : latest_settings[t] = CfgDepthKey
    /\ tick.fired = <<>>
    /\ lc_thread # 0
    /\ lc_workers[lc_thread] = "alive"
    /\ dp_cooldown_until = 0

\* with the key "depth" in a trainer's settings the worker thread has ended
\* in its tick, with the feature still marked running
C34_WorkerCrashed ==
    /\ tick.feat = "depth"
    /\ tick.readings = <<OscNum(OscOne)>>
    /\ latest_settings["B"] = CfgDepthName
    /\ tick.fired = <<>>
    /\ lc_running
    /\ lc_thread # 0
    /\ lc_workers[lc_thread] = "crashed"

(***************************************************************************)
(* Focus: the meter and the shock                                          *)
(***************************************************************************)
\* the meter (in hundredths) after n events, each taking the penalty of
\* 0.15 off and none taking it below 0
RECURSIVE C35_AfterEvents(_, _)
C35_AfterEvents(meter, n) ==
    IF n = 0 THEN meter
    ELSE C35_AfterEvents(IF meter >= FcNamePenalty
                         THEN meter - FcNamePenalty ELSE 0, n - 1)

\* the state trainer t's tick starts from
C35_Before(t) ==
    IF fc_state[t].present THEN fc_state[t] ELSE NewFocusState(now)

C35_Fired(t) == \E i \in 1..Len(tick'.fired) : tick'.fired[i].trainer = t

C35_Step ==
    tick'.feat = "focus" /\ tick'.readings # <<>> =>
        \A t \in ActiveTrainerConfigs("feature_focus") :
            LET events == IF tick'.speaker = t THEN tick'.events ELSE 0
                penalised == C35_AfterEvents(C35_Before(t).focus_meter, events)
            IN /\ penalised \in 0..100
               /\ penalised <= C35_Before(t).focus_meter
               /\ events > 0 /\ C35_Before(t).last_tick = now =>
                      fc_state'[t].focus_meter = penalised
               /\ C35_Fired(t) =>
                      /\ fc_state'[t].focus_meter <= FcShockThreshold
                      /\ now >= C35_Before(t).cooldown_until
                      /\ Cardinality({i \in 1..Len(tick'.fired) :
                                         tick'.fired[i].trainer = t}) = 1

C35_WitnessFull ==
    /\ tick.feat = "focus"
    /\ tick.readings = <<Absent>>
    /\ now > 0
    /\ \E t \in Trainers :
          /\ fc_state[t].present
          /\ fc_state[t].focus_meter = 100
          /\ fc_state[t].last_tick = now
          /\ tick.fired = <<>>

(***************************************************************************)
(* C36: the tick of a per-trainer feature that no trainer enables          *)
(***************************************************************************)
C36_Idle(flag) == ActiveTrainerConfigs(flag) = {}

\* Forbidden Words: nothing sent, no cursor of the transcript moved, no
\* telemetry, no state kept
C36_ForbiddenStep ==
    (C36_Idle("feature_forbidden_words") /\ forbidden_tick(<<>>))
        => /\ tick'.fired = <<>>
           /\ tick'.stats = <<>>
           /\ UNCHANGED wvars
           /\ UNCHANGED ch_incoming
           /\ \A t \in Trainers : fw_state'[t] = NoState

\* Focus: nothing sent, poll_events not called and the queue left as it was,
\* no state kept
C36_FocusStep ==
    (C36_Idle("feature_focus")
        /\ \E f \in FocusReadings : focus_poll_tick(<<>>, f))
        => /\ tick'.fired = <<>>
           /\ tick'.stats = <<>>
           /\ tick'.events = 0
           /\ ~ch_poll'.called
           /\ UNCHANGED ch_incoming
           /\ UNCHANGED wvars
           /\ \A t \in Trainers : fc_state'[t] = NoFocus

\* Proximity: nothing sent, no telemetry, no state kept
C36_ProximityStep ==
    (C36_Idle("feature_proximity") /\ ProximityTick)
        => /\ tick'.fired = <<>>
           /\ tick'.stats = <<>>
           /\ UNCHANGED ch_incoming
           /\ UNCHANGED wvars
           /\ \A t \in Trainers : px_state'[t] = NoProximity

\* Scolding: nothing sent, no state kept
C36_ScoldingStep ==
    (C36_Idle("feature_scolding")
        /\ \E w \in Workers, e \in [Trainers -> BOOLEAN] :
               scolding_tick(w, <<>>, e, "none"))
        => /\ tick'.fired = <<>>
           /\ tick'.stats = <<>>
           /\ UNCHANGED ch_incoming
           /\ UNCHANGED wvars
           /\ \A t \in Trainers : sd_state'[t] = NoState

\* C36: on every tick on which no trainer's config enables a per-trainer pet
\* feature, the feature sends nothing to the actuator, takes no event off the
\* session channel and no text off the transcript, sends no telemetry, and
\* ends the tick with no per-trainer state
C36_IdleTickHasNoEffect ==
    [][C36_ForbiddenStep /\ C36_FocusStep /\ C36_ProximityStep
           /\ C36_ScoldingStep]_vars

\* an idle tick of Focus dropped the state of a trainer and left focus
\* commands on the queue of the connected channel
C36_Witness ==
    /\ tick.feat = "focus"
    /\ C36_Idle("feature_focus")
    /\ tick.pruned # {}
    /\ tick.fired = <<>>
    /\ ch_connected
    /\ ~ch_poll.called
    /\ ch_poll.feature = "focus"
    /\ ch_poll.before # <<>>
    /\ ch_incoming = ch_poll.before
    /\ \A t \in Trainers : fc_state[t] = NoFocus

\* an idle tick of Forbidden Words left text behind its cursor unread
C36_WitnessForbidden ==
    /\ tick.feat = "forbidden"
    /\ C36_Idle("feature_forbidden_words")
    /\ ~fw_active
    /\ tag_positions[FwTag] # NoPos
    /\ tag_positions[FwTag] < Len(transcript)

(***************************************************************************)
(* C37: what the trainer's summon and trick detectors detect               *)
(***************************************************************************)
\* the phrases of a detector
C37_Phrases(feature) ==
    IF feature = "proximity"
    THEN {SummonPhrases[i] : i \in 1..Len(SummonPhrases)}
    ELSE UNION {{CommandPhrases[i].phrases[j] :
                    j \in 1..Len(CommandPhrases[i].phrases)} :
                i \in 1..Len(CommandPhrases)}

C37_PhraseIn(feature, text) ==
    \E phrase \in C37_Phrases(feature) :
        Contains(td_normalise_text(text), phrase)

\* a configured name in the normalised concatenation of the chunks
C37_NameIn(window) ==
    \E i \in 1..Len(td_pet_names) :
        Contains(td_normalise_text(JoinTexts(window)), td_pet_names[i])

\* a configured name in the chunks normalised one by one and joined
C37_NameInJoined(window) ==
    \E i \in 1..Len(td_pet_names) :
        Contains(JoinTexts([k \in 1..Len(window) |->
                               td_normalise_text(window[k])]),
                 td_pet_names[i])

C37_Window == recent_chunks(transcript, LookBack)

C37_OwnCursorOnly(tag) ==
    /\ \A t \in TagKeys \ {tag} : tag_positions'[t] = tag_positions[t]
    /\ UNCHANGED transcript

C37_Step(feature, tag) ==
    /\ td_tick'.detected <=>
           /\ C37_PhraseIn(feature, td_tick'.text)
           /\ td_pet_names # <<>> => C37_NameIn(C37_Window)
    /\ C37_OwnCursorOnly(tag)

\* C37: a summon or trick command is detected exactly when a command phrase
\* is in the normalised text just read and, if names are configured, a name
\* is in the normalised concatenation of the three most recent chunks; the
\* detection moves no cursor but the feature's own
C37_Detection ==
    [][/\ listen_for_summon => C37_Step("proximity", SummonTag)
       /\ listen_for_command => C37_Step("tricks", CommandTag)]_vars

C37_StepOfCode(feature, tag) ==
    /\ td_tick'.detected <=>
           /\ C37_PhraseIn(feature, td_tick'.text)
           /\ td_pet_names # <<>> => C37_NameInJoined(C37_Window)
    /\ (\A k \in 1..Len(C37_Window) :
            td_normalise_text(C37_Window[k]) # <<>>)
           => (C37_NameInJoined(C37_Window) <=> C37_NameIn(C37_Window))
    /\ C37_NameInJoined(C37_Window) => C37_NameIn(C37_Window)
    /\ td_tick'.text = StripText(JoinTexts(
           SubSeq(transcript, tag_positions[tag] + 1, Len(transcript))))
    /\ tag_positions'[tag] = Len(transcript)
    /\ C37_OwnCursorOnly(tag)

\* what the code does: the name is looked for in the chunks normalised one by
\* one and joined by single spaces, which is the normalised concatenation
\* unless a chunk of the window normalises to nothing
C37_DetectionOfCode ==
    [][/\ listen_for_summon => C37_StepOfCode("proximity", SummonTag)
       /\ listen_for_command => C37_StepOfCode("tricks", CommandTag)]_vars

\* a summon phrase was read and the name "i m" is in the normalised
\* concatenation of the window "i", "!", "m", and no summon was detected
C37_NameAcrossBlankChunk ==
    /\ td_tick.feature = "proximity"
    /\ ~td_tick.detected
    /\ C37_PhraseIn("proximity", td_tick.text)
    /\ td_tick.recent = recent_chunks(transcript, LookBack)
    /\ C37_NameIn(td_tick.recent)
    /\ ~C37_NameInJoined(td_tick.recent)

\* a trick command detected with the name in an earlier chunk of the window
C37_DetectedAcrossChunks ==
    /\ td_tick.feature = "tricks"
    /\ td_tick.command = "paw"
    /\ td_pet_names # <<>>
    /\ Len(td_tick.recent) = LookBack
    /\ td_tick.recent[1] = <<"I">>
    /\ td_tick.text = <<"m">>

\* a phrase read with the name spoken before the window: nothing detected
C37_NameOutsideWindow ==
    /\ td_tick.feature = "tricks"
    /\ ~td_tick.detected
    /\ C37_PhraseIn("tricks", td_tick.text)
    /\ Len(transcript) = MaxTalk
    /\ \E i \in 1..Len(td_pet_names) :
           Contains(td_normalise_text(transcript[1]), td_pet_names[i])

(***************************************************************************)
(* C38: one worker thread per feature                                      *)
(***************************************************************************)
\* the worker threads inside the polling loop
C38_InLoop == {w \in Workers : tl_pc[w] \in LoopPositions}

\* C38: after any sequence of start() and stop() calls, a restart after a
\* timed-out join and a start() from two threads included, at most one
\* worker thread executes the polling loop
C38_AtMostOneWorker == Cardinality(C38_InLoop) <= 1

\* what the code does: a second thread in the loop is the leftover of a
\* stop() whose signal a later start() withdrew or may withdraw, or was
\* created by a start() that another start() had overtaken; start() called
\* while the feature runs creates none
C38_WorkersOfCode ==
    \/ Cardinality(C38_InLoop) <= 1
    \/ \E w \in C38_InLoop : tl_stop[w].asked
    \/ \E w \in C38_InLoop : w \in tl_start.raced

\* two workers poll with the stop signal withdrawn: the old one was asked to
\* stop, did not see the signal before start() cleared it, and goes on
C38_TwoAfterTimedOutJoin ==
    /\ lc_running
    /\ ~lc_stop_event
    /\ tl_start.raced = {}
    /\ \E v, w \in Workers :
           /\ v # w
           /\ tl_pc[v] = "tick"
           /\ tl_pc[w] = "tick"
           /\ tl_stop[v].asked /\ tl_stop[v].released
           /\ lc_thread = w

\* two workers poll after start() was called from two threads, no stop()
\* having been called at all
C38_TwoAfterConcurrentStart ==
    /\ lc_running
    /\ \A w \in Workers : ~tl_stop[w].asked
    /\ \E v, w \in Workers :
           /\ v # w
           /\ tl_pc[v] = "tick"
           /\ tl_pc[w] = "tick"
           /\ w \in tl_start.raced

(***************************************************************************)
(* C39: the websocket and the polls of a session joined after another      *)
(***************************************************************************)
C39_Joined == ss_session_id = NoSession /\ ss_session_id' # NoSession

C39_Polled == \E limit \in PollLimits : session_poll(limit)

\* C39: after leave_session() and a successful join_session or
\* start_session the websocket is that of the new session, and a poll made
\* in a session returns no event of another session
C39_NewSessionOnly ==
    [][/\ C39_Joined => ss_ws' = ss_session_id'
       /\ C39_Polled =>
              \A i \in 1..Len(ss_poll'.matched) :
                  ss_poll'.matched[i].session = ss_session_id]_vars

\* what the code does: a successful join creates a websocket only if no
\* websocket thread exists, leave_session keeps the websocket, its thread and
\* the queue, and a poll in a session with the interface connected returns
\* the head of the queue whatever session the events came from
C39_SessionsOfCode ==
    [][/\ C39_Joined =>
              ss_ws' = IF ss_ws_thread THEN ss_ws ELSE ss_session_id'
       /\ (\E ok \in BOOLEAN : leave_session(ok)) =>
              UNCHANGED <<ss_ws, ss_ws_thread, ss_incoming>>
       /\ session_stop => ss_incoming' = ss_incoming /\ ~ss_ws_thread'
       /\ C39_Polled =>
              /\ ss_poll'.matched \o ss_incoming' = ss_incoming
              /\ (ss_session_id # NoSession /\ ss_connected /\ ss_incoming # <<>>)
                     => ss_poll'.matched # <<>>]_vars

\* in session S2, joined after S1 was left, the websocket is the one of S1
C39_OldWebsocket ==
    /\ ss_session_id = "S2"
    /\ ss_ws = "S1"
    /\ ss_ws_thread
    /\ ss_connected

\* a poll made in session S2 returned an event of session S1
C39_OldEventPolled ==
    /\ ss_poll.called
    /\ ss_poll.session = "S2"
    /\ ss_session_id = "S2"
    /\ \E i \in 1..Len(ss_poll.matched) : ss_poll.matched[i].session = "S1"

(***************************************************************************)
(* C40: after any sequence of assign_profile_to_pet,                       *)
(* notify_profile_updated, rename_profile_assignment,                      *)
(* remove_profile_assignments and session start, join and leave calls,     *)
(* every pet with a cached replay payload has a profile assignment and     *)
(* that payload is the settings of the profile assigned to the pet, so a   *)
(* replay never sends a pet the settings of a profile it is not assigned.  *)
(***************************************************************************)
\* the cached payload of the pet names the profile the pet is assigned
C40_OfAssignedProfile(pet, payload) ==
    /\ pet \in DOMAIN pp_assignments
    /\ payload.profile = pp_assignments[pet]

C40_CachedOfAssignedProfile ==
    /\ \A p \in DOMAIN pp_payloads :
           C40_OfAssignedProfile(p, cached_payload(p))
    /\ pp_call.op = "replay" =>
           \A m \in pp_call.sent : C40_OfAssignedProfile(m[1], m[2])

\* what the code keeps: a cached payload belongs to a pet that has an
\* assignment, and a call that caches or rewrites a payload leaves it
\* naming the profile the pet is assigned when it is one of the pets the
\* call was made for
C40_CachesOfCode ==
    /\ DOMAIN pp_payloads \subseteq DOMAIN pp_assignments
    /\ \A p \in pp_call.changed \cap pp_call.targets :
           C40_OfAssignedProfile(p, cached_payload(p))
    /\ \A m \in pp_call.sent :
           pp_call.op # "replay" => C40_OfAssignedProfile(m[1], m[2])

\* an assignment made without settings has left the payload of the profile
\* the pet had before
C40_StalePayloadAfterAssign ==
    /\ pp_call.op = "assign"
    /\ pp_call.sent = {}
    /\ \E p \in pp_call.targets :
           /\ p \in DOMAIN pp_payloads
           /\ p \in DOMAIN pp_assignments
           /\ cached_payload(p).profile # pp_assignments[p]

\* a replay has sent a pet the settings of a profile it is not assigned
C40_ReplayOfOtherProfile ==
    /\ pp_call.op = "replay"
    /\ \E m \in pp_call.sent :
           /\ m[1] \in DOMAIN pp_assignments
           /\ m[2].profile # pp_assignments[m[1]]

\* a rename has rewritten the payload of a pet whose assignment it did not
\* touch, the two pets sharing one payload object
C40_RenameRewritesSharedPayload ==
    /\ pp_call.op = "rename"
    /\ pp_call.changed \ pp_call.targets # {}

====
